---- MODULE Spec2Model ----
(***************************************************************************)
(* Workout Mapping & Export Core (supergeri/workoutcanonicalmapper).       *)
(*                                                                         *)
(* The module models these parts of the backend as state machines:         *)
(*   - the FIT step compiler (backend/adapters/blocks_to_fit.py),          *)
(*   - the bulk import job (backend/bulk_import.py),                       *)
(*   - the mobile pairing token (backend/mobile_pairing.py),               *)
(*   - the global popularity counter (backend/core/global_mappings.py),    *)
(*   - the user mapping store (backend/core/user_mappings.py),             *)
(*   - the workouts table (backend/database.py),                           *)
(*   - name normalization (garmin_lookup.py, exercise_name_matcher.py),    *)
(*   - exercise resolution (blocks_to_hyrox_yaml.py, workflow.py, app.py). *)
(*                                                                         *)
(* Python dicts are functions with string domains; a key that is absent    *)
(* (or None) is a key outside the DOMAIN.  Python list indexes are kept    *)
(* 0-based in the values (duration_step), sequences are 1-based.           *)
(***************************************************************************)
EXTENDS Integers, Sequences, FiniteSets, TLC

VARIABLES
    \* ---- FIT step compiler
    blocks_json,        \* the caller's workout: a sequence of block dicts
    use_lap_button,     \* the flag of the last blocks_to_steps call
    steps,              \* the returned step list
    category_ids_used,  \* the returned category id set
    force_sport_type,   \* the force_sport_type of the last to_fit call
    fit_file,           \* the file to_fit returned
    fit_pc,             \* "editing" | "posted" | "returned" | "encoded" | "raised"
    \* ---- bulk import job
    job,                \* the job's row of table bulk_import_jobs
    detected_items,     \* the ids of the job's rows of bulk_import_detected_items
    import_tasks,       \* the execute_import calls: position, arguments, locals
    cancel_pc,          \* the cancel_import call: "idle" | "update"
    \* ---- mobile pairing
    token_record,       \* the token's row of table mobile_pairing_tokens
    profile_exists,     \* whether table profiles has the token owner's row
    pairing_calls,      \* the validate_and_use_token calls: position, result
    \* ---- mapping popularity
    popularity_file,    \* popular_mappings of global_mappings.yaml: pair -> count
    record_calls,       \* the record_mapping_choice calls: position, locals
    choices_recorded,   \* per pair, the record_mapping_choice calls that returned
    \* ---- user mappings
    user_mappings_file, \* mappings of user_mappings.yaml: normalized name -> garmin name
    mapping_calls,      \* the add/remove_user_mapping calls: position, locals
    last_written,       \* per key, what the last write to it stored ("" = removed)
    \* ---- workouts table
    workouts,           \* one profile's rows of table workouts: id -> title, device
    save_calls,         \* the save_workout calls: position, arguments, locals
    \* ---- name normalization
    name_input,         \* the exercise name a caller builds, as a sequence of pieces
    normalized_name,    \* what the normalization call returned
    norm_pc,            \* "typing" | "lookup" (normalize) | "matcher" (normalize_name)
    \* ---- exercise resolution
    resolver_call,      \* the last resolution call: operation, arguments, outcome
    \* ---- batch detection
    detect_call,        \* the _detect_urls_batch / _detect_images_batch call
    fetch_tasks,        \* the tasks handed to asyncio.gather: position, source, result
    semaphore,          \* the value of the asyncio.Semaphore
    completed           \* the task indexes in the order the fetches completed

fitVars == <<blocks_json, use_lap_button, steps, category_ids_used,
             force_sport_type, fit_file, fit_pc>>

jobVars == <<job, detected_items, import_tasks, cancel_pc>>

pairVars == <<token_record, profile_exists, pairing_calls>>

popVars == <<popularity_file, record_calls, choices_recorded>>

mapVars == <<user_mappings_file, mapping_calls, last_written>>

saveVars == <<workouts, save_calls>>

normVars == <<name_input, normalized_name, norm_pc>>

resolveVars == <<resolver_call>>

fetchVars == <<detect_call, fetch_tasks, semaphore, completed>>

vars == <<fitVars, jobVars, pairVars, popVars, mapVars, saveVars, normVars, resolveVars,
          fetchVars>>

\* What an operation of one subsystem leaves alone.
notFitVars == <<fetchVars, resolveVars, normVars, saveVars, jobVars, pairVars, popVars, mapVars>>

notJobVars == <<fetchVars, resolveVars, normVars, saveVars, fitVars, pairVars, popVars, mapVars>>

notPairVars == <<fetchVars, resolveVars, normVars, saveVars, fitVars, jobVars, popVars, mapVars>>

notPopVars == <<fetchVars, resolveVars, normVars, saveVars, fitVars, jobVars, pairVars, mapVars>>

notMapVars == <<fetchVars, resolveVars, normVars, fitVars, jobVars, pairVars, popVars, saveVars>>

notSaveVars == <<fetchVars, resolveVars, normVars, fitVars, jobVars, pairVars, popVars, mapVars>>

notNormVars == <<fetchVars, resolveVars, fitVars, jobVars, pairVars, popVars, mapVars, saveVars>>

notResolveVars == <<fetchVars, fitVars, jobVars, pairVars, popVars, mapVars, saveVars, normVars>>

notFetchVars == <<fitVars, jobVars, pairVars, popVars, mapVars, saveVars, normVars,
                  resolveVars>>

----------------------------------------------------------------------------
(* Bounds of the model.                                                    *)

MaxBlocks == 2
MaxExercises == 2

----------------------------------------------------------------------------
(* Python helpers.                                                         *)

EmptyDict == [k \in {} |-> 0]

Has(d, k) == k \in DOMAIN d

\* d.get(k) used where None and 0 behave alike (truth tests, "x and x > 0").
GetNum(d, k) == IF Has(d, k) THEN d[k] ELSE 0

\* d.get(k, default)
GetOr(d, k, default) == IF Has(d, k) THEN d[k] ELSE default

\* Strings that the code parses are sequences of one-character strings.
DigitChars == <<"0", "1", "2", "3", "4", "5", "6", "7", "8", "9">>

IsDigit(c) == \E i \in 1..10 : DigitChars[i] = c

DigitVal(c) == (CHOOSE i \in 1..10 : DigitChars[i] = c) - 1

IsSpace(c) == c = " "

\* str.lower() on the letters the model's strings use.
LowerChar(c) ==
    CASE c = "K" -> "k"
      [] c = "M" -> "m"
      [] c = "X" -> "x"
      [] OTHER -> c

Lower(s) == [i \in 1..Len(s) |-> LowerChar(s[i])]

\* str.strip()
RECURSIVE LStrip(_)
LStrip(s) == IF s # <<>> /\ IsSpace(Head(s)) THEN LStrip(Tail(s)) ELSE s

RECURSIVE RStrip(_)
RStrip(s) ==
    IF s # <<>> /\ IsSpace(s[Len(s)]) THEN RStrip(SubSeq(s, 1, Len(s) - 1)) ELSE s

Strip(s) == RStrip(LStrip(s))

\* The value of a non-empty all-digit string.
RECURSIVE DigitsValue(_)
DigitsValue(s) ==
    IF s = <<>> THEN 0
    ELSE 10 * DigitsValue(SubSeq(s, 1, Len(s) - 1)) + DigitVal(s[Len(s)])

\* int(s) for a str: the value, or -1 where int() raises ValueError.
PyInt(s) ==
    IF Strip(s) # <<>> /\ \A i \in 1..Len(Strip(s)) : IsDigit(Strip(s)[i])
    THEN DigitsValue(Strip(s)) ELSE -1

\* Length of the longest prefix of s whose characters satisfy the test.
RECURSIVE DigitPrefixLen(_)
DigitPrefixLen(s) ==
    IF s # <<>> /\ IsDigit(Head(s)) THEN 1 + DigitPrefixLen(Tail(s)) ELSE 0

RECURSIVE NumPrefixLen(_)
NumPrefixLen(s) ==
    IF s # <<>> /\ (IsDigit(Head(s)) \/ Head(s) = ".")
    THEN 1 + NumPrefixLen(Tail(s)) ELSE 0

\* The first maximal run of digits of s (re.search(r'(\d+)')), <<>> if none.
RECURSIVE FirstDigitRun(_)
FirstDigitRun(s) ==
    IF s = <<>> THEN <<>>
    ELSE IF IsDigit(Head(s)) THEN SubSeq(s, 1, DigitPrefixLen(s))
    ELSE FirstDigitRun(Tail(s))

\* Index of the first occurrence of character c in s, 0 if none.
RECURSIVE IndexOf(_, _)
IndexOf(s, c) ==
    IF s = <<>> THEN 0
    ELSE IF Head(s) = c THEN 1
    ELSE LET r == IndexOf(Tail(s), c) IN IF r = 0 THEN 0 ELSE r + 1

\* s.split('-')[0]
BeforeDash(s) ==
    LET i == IndexOf(s, "-") IN IF i = 0 THEN s ELSE SubSeq(s, 1, i - 1)

\* The last element of s.split() for a string without leading text after it:
\* the maximal run of non-space characters that ends the right-stripped s.
RECURSIVE LastTokenOf(_)
LastTokenOf(s) ==
    IF s = <<>> \/ IsSpace(s[Len(s)]) THEN <<>>
    ELSE LastTokenOf(SubSeq(s, 1, Len(s) - 1)) \o <<s[Len(s)]>>

\* float(s) succeeds on a [\d.]+ group iff it has one dot at most and a digit.
FloatOK(s) ==
    /\ Cardinality({i \in 1..Len(s) : s[i] = "."}) <= 1
    /\ \E i \in 1..Len(s) : IsDigit(s[i])

RECURSIVE Pow10(_)
Pow10(n) == IF n = 0 THEN 1 ELSE 10 * Pow10(n - 1)

\* int(float(s) * mult) for a decimal string s accepted by FloatOK, computed
\* exactly; the model's strings have binary-exact values, so the float
\* product agrees.
ScaledFloat(s, mult) ==
    LET dot  == IndexOf(s, ".")
        ip   == IF dot = 0 THEN s ELSE SubSeq(s, 1, dot - 1)
        fp   == IF dot = 0 THEN <<>> ELSE SubSeq(s, dot + 1, Len(s))
    IN  (DigitsValue(ip \o fp) * mult) \div Pow10(Len(fp))

----------------------------------------------------------------------------
(* Catalog lookup (backend/adapters/garmin_lookup.py).                     *)

\* The exercises table of the catalog file: name -> entry.  An entry without
\* exercise_name_id has no FIT SDK exercise id.
CatalogExercises ==
    [n \in {"Goblet Squat", "TRX Chest Fly", "Indoor Rower", "Sandbag Carry", "Walk"} |->
        CASE n = "Goblet Squat" ->
                [category_id |-> 28, category_name |-> "Squat",
                 display_name |-> "Goblet Squat", exercise_name_id |-> 37]
          [] n = "TRX Chest Fly" ->
                [category_id |-> 34, category_name |-> "Suspension",
                 display_name |-> "TRX Chest Fly"]
          [] n = "Indoor Rower" ->
                [category_id |-> 38, category_name |-> "Indoor Rower",
                 display_name |-> "Indoor Rower"]
          [] n = "Sandbag Carry" ->
                [category_id |-> 44, category_name |-> "Sandbag",
                 display_name |-> "Sandbag Carry"]
          [] n = "Walk" ->
                [category_id |-> 32, category_name |-> "Run",
                 display_name |-> "Walk", exercise_name_id |-> 1]]

\* Names whose normalized form contains the builtin keyword "run".
BuiltinRunNames == {"1km Run"}

\* GarminExerciseLookup.find: exact match, builtin keyword, default.
find(exercise_name) ==
    IF exercise_name \in DOMAIN CatalogExercises
    THEN CatalogExercises[exercise_name] @@ [match_type |-> "exact"]
    ELSE IF exercise_name \in BuiltinRunNames
    THEN [category_id |-> 2, category_name |-> "Cardio",
          display_name |-> "Run", match_type |-> "builtin_keyword"]
    ELSE [category_id |-> 5, category_name |-> "Core", match_type |-> "default"]

----------------------------------------------------------------------------
(* FIT step compiler (backend/adapters/blocks_to_fit.py).                  *)

MAX_VALID_CATEGORY_ID == 32

INVALID_CATEGORY_FALLBACK ==
    [c \in 33..43 |-> IF c = 38 THEN 2 ELSE 29]

\* Mutant of validate_category_id: no default for an id outside the table.
validate_category_id_TableOnly(category_id) ==
    IF category_id <= MAX_VALID_CATEGORY_ID THEN category_id
    ELSE IF category_id \in DOMAIN INVALID_CATEGORY_FALLBACK
    THEN INVALID_CATEGORY_FALLBACK[category_id]
    ELSE category_id

validate_category_id(category_id) ==
    IF category_id <= MAX_VALID_CATEGORY_ID THEN category_id
    ELSE IF category_id \in DOMAIN INVALID_CATEGORY_FALLBACK
    THEN INVALID_CATEGORY_FALLBACK[category_id]
    ELSE 29

\* _is_user_confirmed_name on the model's names: Title Case, no distance
\* prefix, no rep count.
_is_user_confirmed_name(name) ==
    name \in {"Goblet Squat", "TRX Chest Fly", "Indoor Rower", "Sandbag Carry"}

\* parse_structure; None and '' are both <<>>.
parse_structure(structure_str) ==
    IF structure_str = <<>> THEN 1
    ELSE LET run == FirstDigitRun(structure_str)
         IN  IF run = <<>> THEN 1 ELSE DigitsValue(run)

\* Mutant of _create_rest_step: the rest step carries a category, as an
\* exercise step does.
_create_rest_step_WithCategory(duration_sec, rest_type) ==
    [type |-> "rest", display_name |-> <<"Rest">>, intensity |-> 1,
     duration_type |-> IF rest_type = "button" THEN 5 ELSE 0,
     duration_value |-> IF rest_type = "button" THEN 0 ELSE duration_sec * 1000,
     category_id |-> 0]

_create_rest_step(duration_sec, rest_type) ==
    IF rest_type = "button"
    THEN [type |-> "rest", display_name |-> <<"Rest">>, intensity |-> 1,
          duration_type |-> 5, duration_value |-> 0]
    ELSE [type |-> "rest", display_name |-> <<"Rest">>, intensity |-> 1,
          duration_type |-> 0, duration_value |-> duration_sec * 1000]

WARMUP_ACTIVITY_NAMES ==
    [a \in {"stretching", "jump_rope", "air_bike", "treadmill", "stairmaster",
            "rowing", "custom"} |->
        CASE a = "stretching" -> "Stretching"
          [] a = "jump_rope" -> "Jump Rope"
          [] a = "air_bike" -> "Air Bike"
          [] a = "treadmill" -> "Treadmill"
          [] a = "stairmaster" -> "Stairmaster"
          [] a = "rowing" -> "Rowing"
          [] a = "custom" -> "Warm-Up"]

\* _create_warmup_step; duration_sec None is 0, activity None is "".
_create_warmup_step(duration_sec, activity) ==
    LET display_name ==
            IF activity # "" /\ activity \in DOMAIN WARMUP_ACTIVITY_NAMES
            THEN WARMUP_ACTIVITY_NAMES[activity] ELSE "Warm-Up"
    IN  IF duration_sec > 0
        THEN [type |-> "warmup", display_name |-> <<display_name>>, intensity |-> 1,
              duration_type |-> 0, duration_value |-> duration_sec * 1000,
              category_id |-> 2, category_name |-> "Cardio"]
        ELSE [type |-> "warmup", display_name |-> <<display_name>>, intensity |-> 1,
              duration_type |-> 5, duration_value |-> 0,
              category_id |-> 2, category_name |-> "Cardio"]

\* The distance in centimetres parsed from a reps string by the km and m
\* patterns ^([\d.]+)\s*km$ and ^([\d.]+)\s*m$: -1 when neither matches,
\* -2 when float() raises ValueError on the matched group.
RepsDistanceCm(reps_raw) ==
    LET reps_str == Strip(Lower(reps_raw))
        n        == NumPrefixLen(reps_str)
        group    == SubSeq(reps_str, 1, n)
        unit     == LStrip(SubSeq(reps_str, n + 1, Len(reps_str)))
    IN  IF n = 0 THEN -1
        ELSE IF unit = <<"k", "m">>
        THEN IF FloatOK(group) THEN ScaledFloat(group, 100000) ELSE -2
        ELSE IF unit = <<"m">>
        THEN IF FloatOK(group) THEN ScaledFloat(group, 100) ELSE -2
        ELSE -1

\* StepDuration with duration_sec tried before the distance.
StepDurationTimeFirst(exercise, lap) ==
    IF lap THEN <<5, 0>>
    ELSE IF GetNum(exercise, "duration_sec") # 0
    THEN <<0, exercise.duration_sec * 1000>>
    ELSE IF Has(exercise, "distance_m") /\ exercise.distance_m > 0
    THEN <<1, exercise.distance_m * 100>>
    ELSE IF Has(exercise, "reps") /\ exercise.reps.kind = "int"
    THEN <<29, exercise.reps.v>>
    ELSE <<5, 0>>

\* Duration type and value of the working step (lines 335-391):
\* <<duration_type, duration_value>>, or <<-1, -1>> when the code raises.
StepDuration(exercise, lap) ==
    IF lap THEN <<5, 0>>
    ELSE
    LET distance_cm ==
            IF Has(exercise, "distance_m") /\ exercise.distance_m > 0
            THEN exercise.distance_m * 100
            ELSE IF Has(exercise, "reps") /\ exercise.reps.kind = "str" THEN RepsDistanceCm(exercise.reps.v)
            ELSE -1
    IN  IF distance_cm = -2 THEN <<-1, -1>>
        ELSE IF distance_cm # -1 THEN <<1, distance_cm>>
        ELSE IF GetNum(exercise, "duration_sec") # 0
        THEN <<0, exercise.duration_sec * 1000>>
        ELSE IF Has(exercise, "reps")
        THEN IF exercise.reps.kind = "str"
             THEN LET v == PyInt(BeforeDash(exercise.reps.v))
                  IN  <<29, IF v = -1 THEN 10 ELSE v>>
             ELSE <<29, IF exercise.reps.v # 0 THEN exercise.reps.v ELSE 10>>
        ELSE IF Has(exercise, "reps_range") /\ exercise.reps_range # <<>>
        THEN LET spaced == [i \in 1..Len(exercise.reps_range) |->
                               IF exercise.reps_range[i] = "-" THEN " "
                               ELSE exercise.reps_range[i]]
                 last   == LastTokenOf(RStrip(spaced))
                 v      == IF last = <<>> THEN 10 ELSE PyInt(last)
             IN  <<29, IF v = -1 THEN 10 ELSE v>>
        ELSE <<5, 0>>

\* Inter-set rest (lines 419-425 and 464-473): a sequence of 0 or 1 steps.
InterSetRest(exercise_rest_type, exercise_rest_sec, rest_between_sets, rest_type_block) ==
    IF exercise_rest_type = "button" THEN <<_create_rest_step(0, "button")>>
    ELSE IF exercise_rest_sec > 0 THEN <<_create_rest_step(exercise_rest_sec, "timed")>>
    ELSE IF rest_between_sets > 0
    THEN <<_create_rest_step(rest_between_sets, rest_type_block)>>
    ELSE <<>>

\* A step dict with exercise_name_id added when the match has one.
WithNameId(step, match) ==
    IF Has(match, "exercise_name_id")
    THEN step @@ [exercise_name_id |-> match.exercise_name_id]
    ELSE step

\* Mutant of RepeatStep: the target is taken after the exercise step was
\* appended, one past the first step of the run.
RepeatStepTargetsNext(start_index, count) ==
    [type |-> "repeat", duration_step |-> start_index + 1, repeat_count |-> count]

\* The repeat step appended after the sets of an exercise (lines 431-435, 479-483).
RepeatStep(start_index, count) ==
    [type |-> "repeat", duration_step |-> start_index, repeat_count |-> count]

\* The exercise step dict (lines 406-413 and 447-454).  A display name is the
\* sequence of the string pieces it is concatenated from.
ExerciseStep(display_name, category_id, intensity, duration_type, duration_value) ==
    [type |-> "exercise", display_name |-> display_name,
     category_id |-> category_id, intensity |-> intensity,
     duration_type |-> duration_type, duration_value |-> duration_value]

\* Warm-up sets of one exercise (lines 397-441); len_steps is len(steps).
WarmupSetSteps(exercise, match, display_name, category_id, exercise_rest_type, rest_between_sets, rest_type_block, len_steps) ==
    LET warmup_sets       == GetNum(exercise, "warmup_sets")
        warmup_reps       == GetNum(exercise, "warmup_reps")
        exercise_rest_sec == GetNum(exercise, "rest_sec")
    IN  IF warmup_sets > 0 /\ warmup_reps > 0
        THEN <<WithNameId(ExerciseStep(display_name \o <<" (Warm-Up)">>, category_id,
                                       1, 29, warmup_reps), match)>>
             \o (IF warmup_sets > 1
                 THEN InterSetRest(exercise_rest_type, exercise_rest_sec,
                                   rest_between_sets, rest_type_block)
                      \o <<RepeatStep(len_steps, warmup_sets)>>
                 ELSE <<>>)
             \o (IF exercise_rest_sec > 0
                 THEN <<_create_rest_step(exercise_rest_sec, exercise_rest_type)>>
                 ELSE IF rest_between_sets > 0
                 THEN <<_create_rest_step(rest_between_sets, rest_type_block)>>
                 ELSE <<>>)
        ELSE <<>>

\* The working steps with a repeat that counts the additional sets only.
WorkingSetStepsRepeatExtraSets(exercise, match, display_name, category_id, duration, sets, exercise_rest_type, rest_between_sets, rest_type_block, start_index) ==
    <<WithNameId(ExerciseStep(display_name, category_id, 0,
                              duration[1], duration[2]), match)>>
    \o (IF sets > 1
        THEN InterSetRest(exercise_rest_type, GetNum(exercise, "rest_sec"),
                          rest_between_sets, rest_type_block)
             \o <<RepeatStep(start_index, sets - 1)>>
        ELSE <<>>)

\* The working steps without the rest between the sets.
WorkingSetStepsNoInterSetRest(exercise, match, display_name, category_id, duration, sets, exercise_rest_type, rest_between_sets, rest_type_block, start_index) ==
    <<WithNameId(ExerciseStep(display_name, category_id, 0,
                              duration[1], duration[2]), match)>>
    \o (IF sets > 1 THEN <<RepeatStep(start_index, sets)>> ELSE <<>>)

\* Working step, inter-set rest and repeat (lines 443-483).
WorkingSetSteps(exercise, match, display_name, category_id, duration, sets, exercise_rest_type, rest_between_sets, rest_type_block, start_index) ==
    <<WithNameId(ExerciseStep(display_name, category_id, 0,
                              duration[1], duration[2]), match)>>
    \o (IF sets > 1
        THEN InterSetRest(exercise_rest_type, GetNum(exercise, "rest_sec"),
                          rest_between_sets, rest_type_block)
             \o <<RepeatStep(start_index, sets)>>
        ELSE <<>>)

\* Rest after the exercise and after its superset (lines 485-502).
TrailingRestSteps(exercise, is_last_block, is_last_exercise) ==
    (IF GetNum(exercise, "rest_sec") > 0 /\ ~(is_last_block /\ is_last_exercise)
     THEN <<_create_rest_step(exercise.rest_sec, GetOr(exercise, "rest_type", "timed"))>>
     ELSE <<>>)
    \o
    (IF exercise._is_last_in_superset /\ exercise._superset_rest # 0
        /\ ~(is_last_block /\ exercise._is_last_superset)
     THEN <<_create_rest_step(exercise._superset_rest, exercise._superset_rest_type)>>
     ELSE <<>>)

\* The iteration raises ValueError (float() of a malformed distance group).
ExerciseRaises(exercise, lap) == StepDuration(exercise, lap)[1] = -1

\* One iteration of the loop over all_exercises (lines 302-502): the steps
\* appended for one exercise that does not raise.
ExerciseSteps(exercise, rounds, rest_between_sets, rest_type_block, is_last_block, is_last_exercise, lap, len_steps) ==
    LET name        == GetOr(exercise, "name", "Exercise")
        sets        == IF GetNum(exercise, "sets") # 0 THEN exercise.sets ELSE rounds
        match       == find(name)
        category_id == validate_category_id(match.category_id)
        display_name ==
            IF match.match_type \in {"exact", "exact_with_category_override"}
            THEN <<GetOr(match, "display_name", name)>>
            ELSE IF _is_user_confirmed_name(name) THEN <<name>>
            ELSE <<GetOr(match, "display_name", match.category_name)>>
        duration    == StepDuration(exercise, lap)
        exercise_rest_type == GetOr(exercise, "rest_type", rest_type_block)
        warm        == WarmupSetSteps(exercise, match, display_name, category_id,
                                      exercise_rest_type, rest_between_sets,
                                      rest_type_block, len_steps)
        start_index == len_steps + Len(warm)
    IN  warm
             \o WorkingSetSteps(exercise, match, display_name, category_id,
                                duration, sets, exercise_rest_type,
                                rest_between_sets, rest_type_block, start_index)
             \o TrailingRestSteps(exercise, is_last_block, is_last_exercise)

\* Lines 278-300: the exercises of a block in processing order, each with the
\* bookkeeping keys the loop writes into the caller's exercise dict.  The None
\* the code stores under _superset_idx and _superset_rest is -1 and 0 here.
SupersetExercises(block, superset_idx) ==
    LET supersets == GetOr(block, "supersets", <<>>)
        superset  == supersets[superset_idx + 1]
        exs       == GetOr(superset, "exercises", <<>>)
        is_last_superset ==
            superset_idx = Len(supersets) - 1 /\ GetOr(block, "exercises", <<>>) = <<>>
    IN  [i \in 1..Len(exs) |->
            [_superset_idx |-> superset_idx,
             _is_last_in_superset |-> (i - 1 = Len(exs) - 1),
             _superset_rest |-> GetNum(superset, "rest_between_sec"),
             _superset_rest_type |-> GetOr(superset, "rest_type", "timed"),
             _is_last_superset |-> is_last_superset] @@ exs[i]]

StandaloneExercises(block) ==
    LET exs == GetOr(block, "exercises", <<>>)
    IN  [i \in 1..Len(exs) |->
            [_superset_idx |-> -1,
             _is_last_in_superset |-> FALSE,
             _superset_rest |-> 0,
             _superset_rest_type |-> "timed",
             _is_last_superset |-> (i - 1 = Len(exs) - 1)] @@ exs[i]]

RECURSIVE SupersetsFrom(_, _)
SupersetsFrom(block, superset_idx) ==
    IF superset_idx >= Len(GetOr(block, "supersets", <<>>)) THEN <<>>
    ELSE SupersetExercises(block, superset_idx) \o SupersetsFrom(block, superset_idx + 1)

AllExercises(block) == SupersetsFrom(block, 0) \o StandaloneExercises(block)

\* rest_between_sets_sec or rest_between_sec (default 30) or 30 (line 267).
RestBetweenSets(block) ==
    IF GetNum(block, "rest_between_sets_sec") # 0 THEN block.rest_between_sets_sec
    ELSE IF GetOr(block, "rest_between_sec", 30) # 0 THEN GetOr(block, "rest_between_sec", 30)
    ELSE 30

\* The loop over all_exercises of one block, from position i (1-based).
RECURSIVE ExercisesFrom(_, _, _, _, _, _)
ExercisesFrom(all_exercises, i, block, is_last_block, lap, acc) ==
    IF i > Len(all_exercises) THEN acc
    ELSE ExercisesFrom(all_exercises, i + 1, block, is_last_block, lap,
            acc \o ExerciseSteps(all_exercises[i],
                                 parse_structure(GetOr(block, "structure", <<>>)),
                                 RestBetweenSets(block),
                                 GetOr(block, "rest_type", "timed"),
                                 is_last_block,
                                 i = Len(all_exercises),
                                 lap, Len(acc)))

\* One iteration of the loop over blocks (lines 259-506).
BlockSteps(block, is_last_block, lap, acc) ==
    LET with_warmup ==
            IF GetOr(block, "warmup_enabled", FALSE)
            THEN acc \o <<_create_warmup_step(GetNum(block, "warmup_duration_sec"),
                                              GetOr(block, "warmup_activity", ""))>>
            ELSE acc
        with_exercises ==
            ExercisesFrom(AllExercises(block), 1, block, is_last_block, lap, with_warmup)
    IN  IF GetNum(block, "rest_between_rounds_sec") > 0 /\ ~is_last_block
        THEN with_exercises
             \o <<_create_rest_step(block.rest_between_rounds_sec,
                                    GetOr(block, "rest_type", "timed"))>>
        ELSE with_exercises

RECURSIVE BlocksFrom(_, _, _, _)
BlocksFrom(blocks, block_idx, lap, acc) ==
    IF block_idx >= Len(blocks) THEN acc
    ELSE BlocksFrom(blocks, block_idx + 1, lap,
                    BlockSteps(blocks[block_idx + 1], block_idx = Len(blocks) - 1, lap, acc))

\* Every exercise of the workout, in processing order.
RECURSIVE WorkoutExercises(_)
WorkoutExercises(blocks) ==
    IF blocks = <<>> THEN <<>>
    ELSE AllExercises(Head(blocks)) \o WorkoutExercises(Tail(blocks))

\* blocks_to_steps (lines 228-508): the returned pair, or raised.
blocks_to_steps(json, lap) ==
    LET blocks == GetOr(json, "blocks", <<>>)
        exs    == WorkoutExercises(blocks)
        first  == IF blocks = <<>> \/ ~GetOr(blocks[1], "warmup_enabled", FALSE)
                  THEN <<_create_warmup_step(0, "")>> ELSE <<>>
    IN  IF \E i \in 1..Len(exs) : ExerciseRaises(exs[i], lap)
        THEN [raised |-> TRUE, steps |-> <<>>, category_ids_used |-> {}]
        ELSE [raised |-> FALSE,
              steps |-> BlocksFrom(blocks, 0, lap, first),
              category_ids_used |->
                  {validate_category_id(find(GetOr(exs[i], "name", "Exercise")).category_id) :
                      i \in 1..Len(exs)}]

\* The dict d with key k set to v.
SetKey(d, k, v) == [x \in {k} |-> v] @@ d

\* The caller's blocks after the call: the loops of lines 278-300 write the
\* bookkeeping keys into the exercise dicts the caller passed, block by block,
\* up to the block in which the call raises.
AnnotatedBlocks(blocks, lap) ==
    LET Raises(block) ==
            \E i \in 1..Len(AllExercises(block)) : ExerciseRaises(AllExercises(block)[i], lap)
        AnnotatedSupersets(block) ==
            [k \in 1..Len(block.supersets) |->
                IF Has(block.supersets[k], "exercises")
                THEN SetKey(block.supersets[k], "exercises", SupersetExercises(block, k - 1))
                ELSE block.supersets[k]]
        WithSupersets(block) ==
            IF Has(block, "supersets")
            THEN SetKey(block, "supersets", AnnotatedSupersets(block)) ELSE block
        Annotated(block) ==
            IF Has(block, "exercises")
            THEN SetKey(WithSupersets(block), "exercises", StandaloneExercises(block))
            ELSE WithSupersets(block)
    IN  [b \in 1..Len(blocks) |->
            IF \E earlier \in 1..(b - 1) : Raises(blocks[earlier])
            THEN blocks[b] ELSE Annotated(blocks[b])]

\* detect_sport_type without its running-only branch.
detect_sport_typeNoRunning(category_ids) ==
    IF 32 \in category_ids \/ 2 \in category_ids THEN <<10, 26>> ELSE <<10, 20>>

\* detect_sport_type: <<sport_id, sub_sport_id>>.
detect_sport_type(category_ids) ==
    LET has_running         == 32 \in category_ids
        has_cardio_machines == 2 \in category_ids
        has_strength        == category_ids \ {32, 2} # {}
    IN  IF has_running /\ ~has_strength /\ ~has_cardio_machines THEN <<1, 0>>
        ELSE IF has_running \/ has_cardio_machines THEN <<10, 26>>
        ELSE <<10, 20>>

\* get_exercise_id over a sequence of calls (lines 604-632): the ids assigned
\* to the (category_id, display_name) keys of the steps in queue, in order.
RECURSIVE AssignExerciseIds(_, _, _)
AssignExerciseIds(queue, category_exercise_ids, exercise_name_counter) ==
    IF queue = <<>> THEN category_exercise_ids
    ELSE
    LET step == Head(queue)
        key  == <<step.category_id, step.display_name>>
        next == IF step.category_id \in DOMAIN exercise_name_counter
                THEN exercise_name_counter[step.category_id] ELSE 0
    IN  IF key \in DOMAIN category_exercise_ids
        THEN AssignExerciseIds(Tail(queue), category_exercise_ids, exercise_name_counter)
        ELSE IF Has(step, "exercise_name_id")
        THEN AssignExerciseIds(Tail(queue),
                 category_exercise_ids @@ (key :> step.exercise_name_id),
                 exercise_name_counter)
        ELSE AssignExerciseIds(Tail(queue),
                 category_exercise_ids @@ (key :> next),
                 (step.category_id :> next + 1) @@ exercise_name_counter)

\* The subsequence of the steps that satisfy Test, in order.
RECURSIVE SelectSteps(_, _)
SelectSteps(list, types) ==
    IF list = <<>> THEN <<>>
    ELSE (IF Head(list).type \in types THEN <<Head(list)>> ELSE <<>>)
         \o SelectSteps(Tail(list), types)

\* The field numbers of the three workout_step definition messages
\* (lines 691-718), by local message type.
StepDefinitions ==
    [local \in {3, 4, 5} |->
        CASE local = 3 -> <<254, 2, 1, 3, 7, 10, 11>>
          [] local = 4 -> <<254, 2, 1, 5, 7>>
          [] local = 5 -> <<254, 2, 4, 1>>]

\* A data record: the values in the order of the definition's fields.
DataRecord(local, values) ==
    [local |-> local,
     fields |-> [n \in {StepDefinitions[local][k] : k \in 1..Len(values)} |->
                    values[CHOOSE k \in 1..Len(values) : StepDefinitions[local][k] = n]]]

\* The data record of step i (0-based) (lines 721-743).
StepRecord(list, i, ids) ==
    LET step == list[i + 1]
    IN  IF step.type = "repeat"
        THEN DataRecord(5, <<i, step.duration_step, step.repeat_count, 6>>)
        ELSE IF step.type = "rest"
        THEN DataRecord(4, <<i, step.duration_value, step.duration_type, 0, 1>>)
        ELSE DataRecord(3, <<i, step.duration_value, step.duration_type, 0, 0,
                             step.category_id,
                             ids[<<step.category_id, step.display_name>>]>>)

NoFile ==
    [sport_id |-> 0, sub_sport_id |-> 0, num_valid_steps |-> 0, records |-> <<>>]

\* The sport written to the workout message (lines 590-599).
SportOf(force, category_ids) ==
    CASE force = "strength" -> <<10, 20>>
      [] force = "cardio" -> <<10, 26>>
      [] force = "running" -> <<1, 0>>
      [] OTHER -> detect_sport_type(category_ids)

\* The workout message's sport and step count and the workout_step data
\* records written for a step list (lines 667-743).
FitFile(list, sport, ids) ==
    [sport_id |-> sport[1], sub_sport_id |-> sport[2],
     num_valid_steps |-> Len(list),
     records |-> [k \in 1..Len(list) |-> StepRecord(list, k - 1, ids)]]

\* The ids of the first pass over the exercise steps followed by the writing
\* pass over every exercise and warm-up step (lines 634-637, 742-743).
ExerciseIdsOf(list) ==
    AssignExerciseIds(SelectSteps(list, {"exercise"})
                          \o SelectSteps(list, {"exercise", "warmup"}),
                      <<>>, <<>>)

\* to_fit after its call of blocks_to_steps (lines 587-766).
EncodeSteps(compiled, force) ==
    IF compiled.raised \/ compiled.steps = <<>>
    THEN [raised |-> TRUE, steps |-> compiled.steps, file |-> NoFile]
    ELSE [raised |-> FALSE, steps |-> compiled.steps,
          file |-> FitFile(compiled.steps,
                           SportOf(force, compiled.category_ids_used),
                           ExerciseIdsOf(compiled.steps))]

\* to_fit (lines 571-766): the file, or raised.
to_fit(json, force, lap) == EncodeSteps(blocks_to_steps(json, lap), force)

----------------------------------------------------------------------------
(* Inputs of the step compiler.                                            *)

\* {} and the one-key dicts {k: v}, v in vals: an optional key of a dict.
Optional(k, vals) == {EmptyDict} \cup {[x \in {k} |-> v] : v \in vals}

IntReps(n) == [kind |-> "int", v |-> n]
StrReps(s) == [kind |-> "str", v |-> s]

RepsValues ==
    {IntReps(12),
     StrReps(<<"8", "-", "1", "0">>),
     StrReps(<<"5", "0", "0", "m">>),
     StrReps(<<"1", ".", "5", "K", "m">>),
     StrReps(<<".", "m">>)}

\* Every combination of the exercise keys the compiler reads.
ExerciseDomain ==
    {n @@ r @@ rr @@ st @@ du @@ di @@ rs @@ rt @@ ws @@ wr :
        n  \in {[name |-> x] : x \in {"Goblet Squat", "TRX Chest Fly", "mystery move", "1km Run"}},
        r  \in Optional("reps", RepsValues),
        rr \in Optional("reps_range", {<<"6", "-", "8">>}),
        st \in Optional("sets", {1, 3}),
        du \in Optional("duration_sec", {45}),
        di \in Optional("distance_m", {500}),
        rs \in Optional("rest_sec", {20}),
        rt \in Optional("rest_type", {"timed", "button"}),
        ws \in Optional("warmup_sets", {1, 2}),
        wr \in Optional("warmup_reps", {5})}

\* The exercises of the multi-exercise workouts.
ContextExercises ==
    {[name |-> "Indoor Rower", reps |-> IntReps(10), sets |-> 3],
     [name |-> "Sandbag Carry", reps |-> IntReps(8), sets |-> 3,
      warmup_sets |-> 2, warmup_reps |-> 5, rest_sec |-> 20, rest_type |-> "button"]}

\* The exercise of a running block: its name is in the catalog under
\* category 32 (Run) and contains no builtin keyword, so find keeps 32.
RunExercises ==
    {[name |-> "Walk", distance_m |-> 500]}

\* The (force_sport_type, use_lap_button) arguments of the to_fit calls: every
\* sport with the default flag, and the lap button with the detected sport.
ToFitArguments ==
    {<<force, FALSE>> : force \in {"auto", "strength", "cardio", "running"}}
        \cup {<<"auto", TRUE>>}

\* Block dicts without their supersets and exercises.
BlockHeads ==
    {EmptyDict,
     [warmup_enabled |-> TRUE, warmup_duration_sec |-> 300, warmup_activity |-> "rowing",
      rest_between_rounds_sec |-> 60, rest_type |-> "button"]}

\* The block of a one-exercise workout.
SingleBlockHeads ==
    {EmptyDict,
     [structure |-> <<"3", " ", "r", "o", "u", "n", "d", "s">>, rest_between_sec |-> 30]}

SupersetHeads ==
    {EmptyDict, [rest_between_sec |-> 15, rest_type |-> "button"]}

RECURSIVE CountExercises(_)
CountExercises(blocks) ==
    IF blocks = <<>> THEN 0
    ELSE Len(AllExercises(Head(blocks))) + CountExercises(Tail(blocks))

\* The sequence s with its last element replaced by x.
ReplaceLast(s, x) == SubSeq(s, 1, Len(s) - 1) \o <<x>>

----------------------------------------------------------------------------
(* The step compiler as a state machine: a caller builds a payload and     *)
(* calls blocks_to_steps on it.                                            *)

FitInit ==
    /\ blocks_json = [blocks |-> <<>>]
    /\ use_lap_button = FALSE
    /\ steps = <<>>
    /\ category_ids_used = {}
    /\ force_sport_type = "auto"
    /\ fit_file = NoFile
    /\ fit_pc = "editing"

\* The caller appends a block.
AddBlock(head) ==
    /\ fit_pc = "editing"
    /\ Len(blocks_json.blocks) < MaxBlocks
    /\ blocks_json' = [blocks_json EXCEPT !.blocks = Append(@, head)]
    /\ UNCHANGED <<use_lap_button, steps, category_ids_used,
                   force_sport_type, fit_file, fit_pc>>
    /\ UNCHANGED notFitVars

\* The caller appends a superset, with its first exercise, to the last block
\* (before the block's standalone exercises).
AddSuperset(head, exercise) ==
    /\ fit_pc = "editing"
    /\ blocks_json.blocks # <<>>
    /\ CountExercises(blocks_json.blocks) < MaxExercises
    /\ LET blocks    == blocks_json.blocks
           block     == blocks[Len(blocks)]
           supersets == GetOr(block, "supersets", <<>>)
       IN  /\ ~Has(block, "exercises")
           /\ blocks_json' = [blocks_json EXCEPT !.blocks =
                 ReplaceLast(blocks,
                     SetKey(block, "supersets",
                            Append(supersets, SetKey(head, "exercises", <<exercise>>))))]
    /\ UNCHANGED <<use_lap_button, steps, category_ids_used,
                   force_sport_type, fit_file, fit_pc>>
    /\ UNCHANGED notFitVars

\* The caller ends the payload with a superset without exercises, after a
\* superset of the last block that has some, and posts it.
PostEmptySuperset(head) ==
    /\ fit_pc = "editing"
    /\ blocks_json.blocks # <<>>
    /\ LET blocks    == blocks_json.blocks
           block     == blocks[Len(blocks)]
           supersets == GetOr(block, "supersets", <<>>)
       IN  /\ supersets # <<>>
           /\ ~Has(block, "exercises")
           /\ GetOr(supersets[Len(supersets)], "exercises", <<>>) # <<>>
           /\ blocks_json' = [blocks_json EXCEPT !.blocks =
                 ReplaceLast(blocks, SetKey(block, "supersets", Append(supersets, head)))]
    /\ fit_pc' = "posted"
    /\ UNCHANGED <<use_lap_button, steps, category_ids_used, force_sport_type, fit_file>>
    /\ UNCHANGED notFitVars

\* The caller appends an exercise to the last superset of the last block.
AddSupersetExercise(exercise) ==
    /\ fit_pc = "editing"
    /\ blocks_json.blocks # <<>>
    /\ CountExercises(blocks_json.blocks) < MaxExercises
    /\ LET blocks    == blocks_json.blocks
           block     == blocks[Len(blocks)]
           supersets == GetOr(block, "supersets", <<>>)
       IN  /\ supersets # <<>>
           /\ ~Has(block, "exercises")
           /\ LET superset == supersets[Len(supersets)]
                  filled   == SetKey(superset, "exercises",
                                     Append(GetOr(superset, "exercises", <<>>), exercise))
              IN  blocks_json' = [blocks_json EXCEPT !.blocks =
                     ReplaceLast(blocks,
                         SetKey(block, "supersets", ReplaceLast(supersets, filled)))]
    /\ UNCHANGED <<use_lap_button, steps, category_ids_used,
                   force_sport_type, fit_file, fit_pc>>
    /\ UNCHANGED notFitVars

\* The caller appends a standalone exercise to the last block.
AddExercise(exercise) ==
    /\ fit_pc = "editing"
    /\ blocks_json.blocks # <<>>
    /\ CountExercises(blocks_json.blocks) < MaxExercises
    /\ LET blocks == blocks_json.blocks
           block  == blocks[Len(blocks)]
       IN  blocks_json' = [blocks_json EXCEPT !.blocks =
              ReplaceLast(blocks,
                  SetKey(block, "exercises",
                         Append(GetOr(block, "exercises", <<>>), exercise)))]
    /\ UNCHANGED <<use_lap_button, steps, category_ids_used,
                   force_sport_type, fit_file, fit_pc>>
    /\ UNCHANGED notFitVars

\* The caller starts the payload with a block of one running exercise.
AddRunBlock(exercise) ==
    /\ fit_pc = "editing"
    /\ blocks_json.blocks = <<>>
    /\ blocks_json' = [blocks |-> <<[exercises |-> <<exercise>>]>>]
    /\ UNCHANGED <<use_lap_button, steps, category_ids_used,
                   force_sport_type, fit_file, fit_pc>>
    /\ UNCHANGED notFitVars

\* The caller posts a workout of one block with one standalone exercise.
PostSingleExercise(head, exercise) ==
    /\ fit_pc = "editing"
    /\ blocks_json.blocks = <<>>
    /\ blocks_json' = [blocks |-> <<SetKey(head, "exercises", <<exercise>>)>>]
    /\ fit_pc' = "posted"
    /\ UNCHANGED <<use_lap_button, steps, category_ids_used, force_sport_type, fit_file>>
    /\ UNCHANGED notFitVars

\* blocks_to_steps(blocks_json, use_lap_button=lap) returns or raises.
BlocksToSteps(lap) ==
    /\ fit_pc \in {"editing", "posted"}
    /\ LET result == blocks_to_steps(blocks_json, lap)
       IN  /\ use_lap_button' = lap
           /\ steps' = result.steps
           /\ category_ids_used' = result.category_ids_used
           /\ fit_pc' = IF result.raised THEN "raised" ELSE "returned"
    /\ blocks_json' = [blocks_json EXCEPT !.blocks = AnnotatedBlocks(@, lap)]
    /\ UNCHANGED <<force_sport_type, fit_file>>
    /\ UNCHANGED notFitVars

\* to_fit(blocks_json, force_sport_type=force, use_lap_button=lap) returns the
\* file or raises; steps keeps the step list it compiled.
ToFit(force, lap) ==
    /\ fit_pc = "editing"
    /\ LET result == to_fit(blocks_json, force, lap)
       IN  /\ use_lap_button' = lap
           /\ force_sport_type' = force
           /\ steps' = result.steps
           /\ fit_file' = result.file
           /\ fit_pc' = IF result.raised THEN "raised" ELSE "encoded"
    /\ blocks_json' = [blocks_json EXCEPT !.blocks = AnnotatedBlocks(@, lap)]
    /\ UNCHANGED category_ids_used
    /\ UNCHANGED notFitVars

FitNext ==
    \/ \E head \in BlockHeads : AddBlock(head)
    \/ \E head \in SupersetHeads, exercise \in ContextExercises :
            AddSuperset(head, exercise)
    \/ PostEmptySuperset(EmptyDict)
    \/ \E exercise \in ContextExercises : AddSupersetExercise(exercise)
    \/ \E exercise \in ContextExercises : AddExercise(exercise)
    \/ \E exercise \in RunExercises : AddRunBlock(exercise)
    \/ /\ fit_pc = "editing" /\ blocks_json.blocks = <<>>
       /\ \E head \in SingleBlockHeads, exercise \in ExerciseDomain :
                PostSingleExercise(head, exercise)
    \/ \E lap \in BOOLEAN : BlocksToSteps(lap)
    \/ \E arguments \in ToFitArguments : ToFit(arguments[1], arguments[2])

----------------------------------------------------------------------------
(* Properties of the step compiler.                                        *)

\* The step with 0-based index i of the returned list.
StepAt(i) == steps[i + 1]

StepIndexes == 0..(Len(steps) - 1)

Compiled == fit_pc \in {"returned", "encoded"}

\* C1: in every returned step list, each repeat step's target index is
\* strictly less than the repeat's own index, the step at the target is an
\* exercise or warm-up step (never a rest or a repeat), and repeat_count >= 2.
C1_RepeatTargetsEarlierExercise ==
    Compiled =>
        \A i \in StepIndexes :
            StepAt(i).type = "repeat" =>
                /\ StepAt(i).duration_step \in 0..(i - 1)
                /\ StepAt(StepAt(i).duration_step).type \in {"exercise", "warmup"}
                /\ StepAt(i).repeat_count >= 2

\* A returned list with a repeat over warm-up sets and a later repeat over the
\* working sets of an exercise that is not the first of the workout.
C1_Witness ==
    /\ fit_pc = "returned"
    /\ \E i, j \in StepIndexes :
        /\ i < j
        /\ StepAt(i).type = "repeat" /\ StepAt(j).type = "repeat"
        /\ StepAt(StepAt(i).duration_step).intensity = 1
        /\ StepAt(j).duration_step > i
        /\ StepAt(j).duration_step < j - 1

\* The remap the specification states: ids up to 32 unchanged, 38 to 2, every
\* other id above 32 to 29.
StatedRemap(category_id) ==
    IF category_id <= 32 THEN category_id
    ELSE IF category_id = 38 THEN 2
    ELSE 29

\* The catalog category of every exercise of the caller's workout.
InputCategories ==
    LET exs == WorkoutExercises(blocks_json.blocks)
    IN  {find(GetOr(exs[i], "name", "Exercise")).category_id : i \in 1..Len(exs)}

\* C2: validate_category_id keeps ids <= 32, maps 38 to 2 and every other id
\* above 32 to 29; it is applied to every catalog match, so no exercise step of
\* a compiled list has category_id > 32.
C2_NoCategoryAbove32 ==
    /\ fit_pc = "returned" =>
          category_ids_used = {StatedRemap(c) : c \in InputCategories}
    /\ Compiled =>
          \A i \in StepIndexes :
              StepAt(i).type = "exercise" =>
                  /\ StepAt(i).category_id <= 32
                  /\ StepAt(i).category_id \in {StatedRemap(c) : c \in InputCategories}

\* A returned list for a workout with a category-38 exercise and an exercise of
\* a category above 43.
C2_Witness ==
    /\ fit_pc = "returned"
    /\ 38 \in InputCategories
    /\ \E c \in InputCategories : c > 43
    /\ category_ids_used = {2, 29}

\* C3: no rest step carries an exercise category or exercise name: a rest
\* step of a compiled list has no category_id and no exercise_name_id, and
\* to_fit writes it with the rest record layout (local type 4), which has no
\* exercise_category (10) and no exercise_name (11) field.
C3_RestStepsCarryNoCategory ==
    /\ Compiled =>
          \A i \in StepIndexes :
              StepAt(i).type = "rest" =>
                  /\ ~Has(StepAt(i), "category_id")
                  /\ ~Has(StepAt(i), "exercise_name_id")
    /\ fit_pc = "encoded" =>
          \A i \in StepIndexes :
              StepAt(i).type = "rest" =>
                  /\ fit_file.records[i + 1].local = 4
                  /\ 10 \notin DOMAIN fit_file.records[i + 1].fields
                  /\ 11 \notin DOMAIN fit_file.records[i + 1].fields
                  /\ \A k \in 1..Len(StepDefinitions[4]) :
                        StepDefinitions[4][k] \notin {10, 11}

\* An encoded file with a timed and a lap-button rest step.
C3_Witness ==
    /\ fit_pc = "encoded"
    /\ \E i, j \in StepIndexes :
        /\ StepAt(i).type = "rest" /\ StepAt(i).duration_type = 0
        /\ StepAt(j).type = "rest" /\ StepAt(j).duration_type = 5
        /\ fit_file.records[i + 1].local = 4

\* The repeat steps of a list with their positions.
RepeatsOf(list) == {<<i, list[i]>> : i \in {k \in 1..Len(list) : list[k].type = "repeat"}}

\* C4: with use_lap_button = true every step of type exercise has
\* duration_type 5 (OPEN) and duration_value 0, and the repeat steps are those
\* produced with use_lap_button = false.
C4_LapButtonOpensEveryExercise ==
    (fit_pc = "returned" /\ use_lap_button) =>
        /\ \A i \in StepIndexes :
              StepAt(i).type = "exercise" =>
                  StepAt(i).duration_type = 5 /\ StepAt(i).duration_value = 0
        /\ ~blocks_to_steps(blocks_json, FALSE).raised =>
              RepeatsOf(steps) = RepeatsOf(blocks_to_steps(blocks_json, FALSE).steps)

RECURSIVE SumSeq(_)
SumSeq(numbers) == IF numbers = <<>> THEN 0 ELSE Head(numbers) + SumSeq(Tail(numbers))

\* The working exercise steps of the returned list: the steps of type
\* exercise with active intensity (the warm-up sets have intensity 1).
WorkingStepCount ==
    Len(SelectSeq(steps, LAMBDA step : step.type = "exercise" /\ step.intensity = 0))

RepeatCountSum ==
    SumSeq([i \in 1..Len(steps) |->
               IF steps[i].type = "repeat" THEN steps[i].repeat_count ELSE 0])

\* The sum of sets over the input exercises that have sets > 1.
InputSetsSum ==
    SumSeq([b \in 1..Len(blocks_json.blocks) |->
        LET exs == AllExercises(blocks_json.blocks[b])
        IN  SumSeq([i \in 1..Len(exs) |->
                IF GetNum(exs[i], "sets") > 1 THEN exs[i].sets ELSE 0])])

\* The sum, over the input exercises, of the set count the compiler works
\* with (the exercise's sets, else the rounds of the block's structure) where
\* it is above 1, and of warmup_sets where warm-up sets above 1 are emitted.
EffectiveSetsSum ==
    SumSeq([b \in 1..Len(blocks_json.blocks) |->
        LET block  == blocks_json.blocks[b]
            exs    == AllExercises(block)
            rounds == parse_structure(GetOr(block, "structure", <<>>))
        IN  SumSeq([i \in 1..Len(exs) |->
                LET sets == IF GetNum(exs[i], "sets") # 0 THEN exs[i].sets ELSE rounds
                    warmup_sets == GetNum(exs[i], "warmup_sets")
                IN  (IF sets > 1 THEN sets ELSE 0)
                    + (IF warmup_sets > 1 /\ GetNum(exs[i], "warmup_reps") > 0
                       THEN warmup_sets ELSE 0)])])

\* C13 as stated: the number of working exercise steps in the compiled list
\* equals the number of input exercises, and the sum of repeat_count over all
\* repeat steps equals the sum of sets over the input exercises with sets > 1.
C13_RepeatCountsSumToInputSets ==
    Compiled =>
        /\ WorkingStepCount = CountExercises(blocks_json.blocks)
        /\ RepeatCountSum = InputSetsSum

\* C13, amended: the number of working exercise steps equals the number of
\* input exercises, and the sum of repeat_count over all repeat steps equals
\* the sum over the exercises of the effective set count (sets, or the block's
\* rounds for an exercise without sets) where it is above 1, plus warmup_sets
\* for every exercise with warmup_sets > 1 and warmup_reps > 0.
C13_StepCountsMatchExercises ==
    Compiled =>
        /\ WorkingStepCount = CountExercises(blocks_json.blocks)
        /\ RepeatCountSum = EffectiveSetsSum

\* A compiled workout of two exercises with repeats over working sets and
\* over warm-up sets.
C13_Witness ==
    /\ Compiled
    /\ WorkingStepCount = 2
    /\ RepeatCountSum > InputSetsSum
    /\ InputSetsSum > 3

\* C17: the Blocks workout is immutable through the encode pipeline: after
\* blocks_to_steps or to_fit returns, the caller's blocks_json (every block,
\* superset and exercise, including its set of keys) equals its value before
\* the call.
C17_BlocksUnchangedByEncoding ==
    [][fit_pc' \in {"returned", "encoded"} => blocks_json' = blocks_json]_vars

\* C16: to_fit rejects a workout with zero compiled steps: for a workout
\* that contains no exercises (no blocks, or blocks without exercises) it
\* raises an error and returns no file bytes.
C16_ToFitRejectsWorkoutWithoutExercises ==
    CountExercises(blocks_json.blocks) = 0 =>
        fit_pc # "encoded" /\ fit_file = NoFile

\* The workout {blocks: [{exercises: [{name: "1km Run"}]}]} (with the keys
\* the compiler wrote into the exercise).
OneKmRunWorkout ==
    /\ Len(blocks_json.blocks) = 1
    /\ DOMAIN blocks_json.blocks[1] = {"exercises"}
    /\ Len(blocks_json.blocks[1].exercises) = 1
    /\ LET exercise == blocks_json.blocks[1].exercises[1]
       IN  /\ exercise.name = "1km Run"
           /\ DOMAIN exercise \cap
                 {"reps", "reps_range", "sets", "duration_sec", "distance_m",
                  "rest_sec", "rest_type", "warmup_sets", "warmup_reps"} = {}

\* C18: compiling the workout whose only exercise is named "1km Run" (no
\* other duration fields) yields exactly one exercise step, with
\* duration_type distance (1), duration_value 100000 cm and category 2, and
\* the inferred sport is training/cardio_training (sport 10, sub-sport 26).
C18_OneKmRunCompilesToDistance ==
    (fit_pc = "returned" /\ ~use_lap_button /\ OneKmRunWorkout) =>
        /\ Len(SelectSteps(steps, {"exercise"})) = 1
        /\ \A i \in StepIndexes :
              StepAt(i).type = "exercise" =>
                  /\ StepAt(i).duration_type = 1
                  /\ StepAt(i).duration_value = 100000
                  /\ StepAt(i).category_id = 2
        /\ detect_sport_type(category_ids_used) = <<10, 26>>

\* The sport the rules state for a category set: running/generic for running
\* (32) alone, training/cardio_training with cardio (2) or running in the
\* set, training/strength_training for every other set.
StatedSport(category_ids) ==
    IF category_ids = {32} THEN <<1, 0>>
    ELSE IF 2 \in category_ids \/ 32 \in category_ids THEN <<10, 26>>
    ELSE <<10, 20>>

\* The categories of the exercise steps of the compiled list.
ExerciseCategories ==
    {StepAt(i).category_id : i \in {j \in StepIndexes : StepAt(j).type = "exercise"}}

\* C19: detect_sport_type returns running/generic (1, 0) for a category set
\* with running (32) and neither a strength nor a cardio-machine category,
\* else training/cardio_training (10, 26) with cardio (2) or running in the
\* set, else training/strength_training (10, 20); the file written by to_fit
\* carries the forced sport when force_sport_type is strength, cardio or
\* running, and the inferred sport of its steps' categories when none is
\* forced.
C19_SportInferredUnlessForced ==
    /\ fit_pc = "returned" =>
          detect_sport_type(category_ids_used) = StatedSport(category_ids_used)
    /\ fit_pc = "encoded" =>
          <<fit_file.sport_id, fit_file.sub_sport_id>> =
              CASE force_sport_type = "strength" -> <<10, 20>>
                [] force_sport_type = "cardio" -> <<10, 26>>
                [] force_sport_type = "running" -> <<1, 0>>
                [] OTHER -> StatedSport(ExerciseCategories)

\* A file of a running-only workout encoded without a forced sport: the
\* inferred running/generic sport is written.
C19_Witness ==
    /\ fit_pc = "encoded"
    /\ force_sport_type = "auto"
    /\ ExerciseCategories = {32}
    /\ <<fit_file.sport_id, fit_file.sub_sport_id>> = <<1, 0>>


\* The 0-based indexes of the working exercise steps, in order.
WorkingIndexes ==
    SelectSeq([i \in 1..Len(steps) |-> i - 1],
              LAMBDA i : StepAt(i).type = "exercise" /\ StepAt(i).intensity = 0)

\* The exercises of the caller's workout in processing order.
InputExercises == WorkoutExercises(blocks_json.blocks)

\* C25: for an exercise with sets = n > 1, blocks_to_steps emits the working
\* exercise step, then one inter-set rest, then one repeat step whose target
\* is the index of that working step and whose count is n (the total number
\* of sets); for an exercise with sets = 1 it emits neither the inter-set
\* rest nor the repeat: no repeat targets its working step, and a rest
\* follows the step only as the rest after the exercise, superset or block.
C25_SetsGiveWorkRestRepeat ==
    fit_pc = "returned" =>
        /\ Len(WorkingIndexes) = Len(InputExercises)
        /\ \A k \in 1..Len(InputExercises) :
              LET exercise == InputExercises[k]
                  i        == WorkingIndexes[k]
                  targeting == {j \in StepIndexes :
                                   StepAt(j).type = "repeat" /\ StepAt(j).duration_step = i}
              IN  Has(exercise, "sets") /\ exercise.sets >= 1 =>
                      IF exercise.sets > 1
                      THEN /\ i + 2 \in StepIndexes
                           /\ StepAt(i + 1).type = "rest"
                           /\ StepAt(i + 2) = [type |-> "repeat", duration_step |-> i,
                                               repeat_count |-> exercise.sets]
                           /\ targeting = {i + 2}
                      ELSE /\ targeting = {}
                           /\ i + 1 \in StepIndexes /\ StepAt(i + 1).type = "rest" =>
                                 \/ GetNum(exercise, "rest_sec") > 0
                                 \/ exercise._is_last_in_superset /\ exercise._superset_rest # 0
                                 \/ \E b \in DOMAIN blocks_json.blocks :
                                       GetNum(blocks_json.blocks[b], "rest_between_rounds_sec") > 0

\* The step list of a superset of two exercises with 10 reps and 3 sets in
\* a block with the default 30 s rest: warm-up, exercise, rest,
\* repeat(target 1, count 3), exercise, rest, repeat(target 4, count 3).
C25_Witness ==
    /\ fit_pc = "returned"
    /\ Len(blocks_json.blocks) = 1
    /\ Len(InputExercises) = 2
    /\ \A k \in 1..2 : InputExercises[k]._superset_idx = 0 /\ InputExercises[k].sets = 3
    /\ Len(steps) = 7
    /\ StepAt(0).type = "warmup"
    /\ WorkingIndexes = <<1, 4>>
    /\ StepAt(2) = [type |-> "rest", display_name |-> <<"Rest">>, intensity |-> 1,
                    duration_type |-> 0, duration_value |-> 30000]
    /\ StepAt(3) = [type |-> "repeat", duration_step |-> 1, repeat_count |-> 3]
    /\ StepAt(5) = StepAt(2)
    /\ StepAt(6) = [type |-> "repeat", duration_step |-> 4, repeat_count |-> 3]


\* The duration the priority rules state for an exercise, as <<type, value>>
\* with type 1 distance (cm), 0 time (ms), 29 reps, 5 open; for the reps
\* strings 500m and 1.5Km, the reps 12 and 8-10 and the range 6-8.
StatedDuration(exercise) ==
    LET reps == IF Has(exercise, "reps") /\ exercise.reps.kind = "str"
                THEN exercise.reps.v ELSE <<>>
    IN  IF GetNum(exercise, "distance_m") > 0 THEN <<1, 100 * exercise.distance_m>>
        ELSE IF reps = <<"5", "0", "0", "m">> THEN <<1, 50000>>
        ELSE IF reps = <<"1", ".", "5", "K", "m">> THEN <<1, 150000>>
        ELSE IF GetNum(exercise, "duration_sec") > 0 THEN <<0, 1000 * exercise.duration_sec>>
        ELSE IF reps = <<"8", "-", "1", "0">> THEN <<29, 8>>
        ELSE IF Has(exercise, "reps") /\ exercise.reps.kind = "int"
        THEN <<29, exercise.reps.v>>
        ELSE IF GetOr(exercise, "reps_range", <<>>) = <<"6", "-", "8">> THEN <<29, 8>>
        ELSE <<5, 0>>

\* C26: without lap-button mode, blocks_to_steps chooses the working step's
\* duration by the first rule that applies: a positive distance_m gives
\* distance in centimetres; else a reps string of the form Nm or Nkm gives
\* distance; else duration_sec gives time in milliseconds; else explicit reps
\* gives reps with that value (a string a-b gives a); else reps_range a-b
\* gives reps with b; else open with value 0.
C26_DurationByFirstApplicableRule ==
    fit_pc = "returned" /\ ~use_lap_button =>
        /\ Len(WorkingIndexes) = Len(InputExercises)
        /\ \A k \in 1..Len(InputExercises) :
              <<StepAt(WorkingIndexes[k]).duration_type,
                StepAt(WorkingIndexes[k]).duration_value>>
                  = StatedDuration(InputExercises[k])

\* A compiled exercise that has distance_m, duration_sec, a reps string and
\* a reps_range at once: the distance wins.
C26_Witness ==
    /\ fit_pc = "returned"
    /\ ~use_lap_button
    /\ Len(InputExercises) = 1
    /\ GetNum(InputExercises[1], "distance_m") = 500
    /\ GetNum(InputExercises[1], "duration_sec") = 45
    /\ Has(InputExercises[1], "reps")
    /\ InputExercises[1].reps = StrReps(<<"8", "-", "1", "0">>)
    /\ Has(InputExercises[1], "reps_range")
    /\ StepAt(WorkingIndexes[1]).duration_type = 1
    /\ StepAt(WorkingIndexes[1]).duration_value = 50000


\* C27: after the last exercise of the last block, blocks_to_steps emits no
\* trailing rest step, even when that exercise has rest_sec, its superset a
\* rest, or the block a rest_between_rounds_sec: the list does not end in a
\* rest.  After every other exercise with rest_sec set, it emits one
\* post-exercise rest of that length (a lap-button rest for rest_type
\* button), behind the exercise's working step and the rest and repeat of
\* its sets.
C27_NoRestAfterLastExercise ==
    fit_pc = "returned" =>
        LET blocks == blocks_json.blocks
            last_block_has_exercises ==
                blocks # <<>> /\ AllExercises(blocks[Len(blocks)]) # <<>>
        IN  /\ last_block_has_exercises => steps[Len(steps)].type # "rest"
            /\ Len(WorkingIndexes) = Len(InputExercises)
            /\ \A k \in 1..Len(InputExercises) :
                  LET exercise == InputExercises[k]
                      i == WorkingIndexes[k]
                      p == IF \E j \in StepIndexes :
                                  StepAt(j).type = "repeat" /\ StepAt(j).duration_step = i
                           THEN i + 3 ELSE i + 1
                  IN  /\ GetNum(exercise, "rest_sec") > 0
                      /\ ~(last_block_has_exercises /\ k = Len(InputExercises))
                      => /\ p \in StepIndexes
                         /\ StepAt(p).type = "rest"
                         /\ IF GetOr(exercise, "rest_type", "timed") = "button"
                            THEN StepAt(p).duration_type = 5
                            ELSE /\ StepAt(p).duration_type = 0
                                 /\ StepAt(p).duration_value = 1000 * exercise.rest_sec


\* C28: workout_step records carry their values under the FIT SDK field
\* numbers: exercise records use message_index 254, duration_type 1,
\* duration_value 2, target_type 3, intensity 7, exercise_category 10 and
\* exercise_name 11; rest records use the same numbers without 10 and 11;
\* repeat records put the target step index in duration_value (field 2) and
\* the repeat count in target_value (field 4), with duration_type 6;
\* target_type is written 0 for every exercise and rest step, and each
\* record's message_index equals the step's position.
C28_WorkoutStepFieldNumbers ==
    fit_pc = "encoded" =>
        \A i \in StepIndexes :
            LET fields == fit_file.records[i + 1].fields
            IN  /\ 254 \in DOMAIN fields
                /\ fields[254] = i
                /\ IF StepAt(i).type = "repeat"
                   THEN /\ DOMAIN fields = {254, 1, 2, 4}
                        /\ fields[2] = StepAt(i).duration_step
                        /\ fields[4] = StepAt(i).repeat_count
                        /\ fields[1] = 6
                   ELSE /\ DOMAIN fields =
                              IF StepAt(i).type = "rest" THEN {254, 1, 2, 3, 7}
                              ELSE {254, 1, 2, 3, 7, 10, 11}
                        /\ fields[1] = StepAt(i).duration_type
                        /\ fields[2] = StepAt(i).duration_value
                        /\ fields[3] = 0

----------------------------------------------------------------------------
(* Bulk import job (backend/bulk_import.py).  One job and its detected     *)
(* items live in the store; every store call is one step, and the calls of *)
(* different requests interleave.                                          *)

MaxItems == 1        \* sources of the detect call
MaxWorkoutIds == 2   \* length of the workout_ids of an execute call
MaxTasks == 2        \* execute_import calls on the job

Tasks == 1..MaxTasks

\* No row: the state of the table before detect_items.
NoJob ==
    [status |-> "absent", total_items |-> 0, processed_items |-> 0,
     results |-> <<>>, completed_at |-> "null"]

FreeTask ==
    [pc |-> "free", workout_ids |-> <<>>, async_mode |-> TRUE, idx |-> 0,
     results |-> <<>>, response |-> "none"]

\* The workout ids a caller may send: detected ids and one unknown id.
UnknownId == MaxItems + 1

RECURSIVE SeqsUpTo(_, _)
SeqsUpTo(S, n) ==
    IF n = 0 THEN {<<>>}
    ELSE LET shorter == SeqsUpTo(S, n - 1)
         IN  shorter \cup {Append(q, x) : q \in {r \in shorter : Len(r) = n - 1}, x \in S}

WorkoutIdLists == SeqsUpTo(1..UnknownId, MaxWorkoutIds)

\* _create_job: the inserted row.
_create_job(total_items) ==
    [status |-> "pending", total_items |-> total_items, processed_items |-> 0,
     results |-> <<>>, completed_at |-> "null"]

\* _update_job_status: the status and the keyword fields are written whatever
\* the row holds; completed_at gets the time of the call for a terminal status.
_update_job_status(row, status, kwargs) ==
    [k \in DOMAIN row |->
        IF k = "status" THEN status
        ELSE IF k \in DOMAIN kwargs THEN kwargs[k]
        ELSE IF k = "completed_at" /\ status \in {"complete", "failed", "cancelled"}
        THEN "timestamp"
        ELSE row[k]]

\* _update_job_progress.
_update_job_progress(row, processed_items) ==
    [row EXCEPT !.processed_items = processed_items]

\* _import_single_workout and the not-found branch: the result of one id.
ImportResult(workout_id, detected) ==
    IF workout_id \in detected
    THEN [workout_id |-> workout_id, status |-> "success"]
    ELSE [workout_id |-> workout_id, status |-> "failed"]

\* Where the for loop of _process_import_sync goes with idx items behind it.
LoopPc(workout_ids, idx) == IF idx < Len(workout_ids) THEN "loop" ELSE "finish"

JobInit ==
    /\ job = NoJob
    /\ detected_items = {}
    /\ import_tasks = [t \in Tasks |-> FreeTask]
    /\ cancel_pc = "idle"

\* detect_items on n sources: the job is created, its items stored and its
\* total_items set to the number of detected items.
DetectItems(n) ==
    /\ job.status = "absent"
    /\ job' = _update_job_status(_create_job(n), "pending", [total_items |-> n])
    /\ detected_items' = 1..n
    /\ UNCHANGED <<import_tasks, cancel_pc>>
    /\ UNCHANGED notJobVars

\* execute_import: the status is set to running and the processing starts (as
\* a background task in async mode, inside the call otherwise).
ExecuteImport(t, workout_ids, async_mode) ==
    /\ job.status # "absent"
    /\ import_tasks[t].pc = "free"
    /\ \A u \in Tasks : u < t => import_tasks[u].pc # "free"
    /\ job' = _update_job_status(job, "running", EmptyDict)
    /\ import_tasks' = [import_tasks EXCEPT ![t] =
          [pc |-> LoopPc(workout_ids, 0), workout_ids |-> workout_ids,
           async_mode |-> async_mode, idx |-> 0, results |-> <<>>,
           response |-> IF async_mode THEN "running" ELSE "none"]]
    /\ UNCHANGED <<detected_items, cancel_pc>>
    /\ UNCHANGED notJobVars

\* _process_import_sync, top of the loop: the job is read and the loop is left
\* when its status is cancelled.
CheckCancelled(t) ==
    /\ import_tasks[t].pc = "loop"
    /\ import_tasks' = [import_tasks EXCEPT ![t].pc =
          IF job.status = "cancelled" THEN "finish" ELSE "progress"]
    /\ UNCHANGED <<job, detected_items, cancel_pc>>
    /\ UNCHANGED notJobVars

\* _process_import_sync: the progress is written before the item is imported.
UpdateProgress(t) ==
    /\ import_tasks[t].pc = "progress"
    /\ job' = _update_job_progress(job, import_tasks[t].idx + 1)
    /\ import_tasks' = [import_tasks EXCEPT ![t].pc = "item"]
    /\ UNCHANGED <<detected_items, cancel_pc>>
    /\ UNCHANGED notJobVars

\* _process_import_sync: the item is imported and its result appended.
ImportItem(t) ==
    /\ import_tasks[t].pc = "item"
    /\ LET task == import_tasks[t]
           workout_id == task.workout_ids[task.idx + 1]
       IN  import_tasks' = [import_tasks EXCEPT ![t] =
              [task EXCEPT !.results = Append(@, ImportResult(workout_id, detected_items)),
                           !.idx = task.idx + 1,
                           !.pc = LoopPc(task.workout_ids, task.idx + 1)]]
    /\ UNCHANGED <<job, detected_items, cancel_pc>>
    /\ UNCHANGED notJobVars

\* _process_import_async after the loop: the status is set to complete and the
\* results are stored.
FinishAsync(t) ==
    /\ import_tasks[t].pc = "finish"
    /\ import_tasks[t].async_mode
    /\ job' = _update_job_status(job, "complete",
                                 [results |-> import_tasks[t].results])
    /\ import_tasks' = [import_tasks EXCEPT ![t].pc = "done"]
    /\ UNCHANGED <<detected_items, cancel_pc>>
    /\ UNCHANGED notJobVars

\* execute_import in sync mode after the loop: the response says complete and
\* nothing is written to the store.
ReturnSync(t) ==
    /\ import_tasks[t].pc = "finish"
    /\ ~import_tasks[t].async_mode
    /\ import_tasks' = [import_tasks EXCEPT ![t].pc = "done", ![t].response = "complete"]
    /\ UNCHANGED <<job, detected_items, cancel_pc>>
    /\ UNCHANGED notJobVars

\* An exception leaves _process_import_sync: the background task sets the
\* status to failed; in sync mode it leaves execute_import.
ProcessRaises(t) ==
    /\ import_tasks[t].pc \in {"loop", "progress", "item"}
    /\ IF import_tasks[t].async_mode
       THEN /\ job' = _update_job_status(job, "failed", EmptyDict)
                    /\ import_tasks' = [import_tasks EXCEPT ![t].pc = "raised"]
       ELSE /\ UNCHANGED job
            /\ import_tasks' = [import_tasks EXCEPT ![t].pc = "raised",
                                                    ![t].response = "error"]
    /\ UNCHANGED <<detected_items, cancel_pc>>
    /\ UNCHANGED notJobVars

\* cancel_import, the read: the call goes on only for a running job (for any
\* other status it returns False and changes nothing).
CancelRead ==
    /\ cancel_pc = "idle"
    /\ job.status = "running"
    /\ cancel_pc' = "update"
    /\ UNCHANGED <<job, detected_items, import_tasks>>
    /\ UNCHANGED notJobVars

\* cancel_import, the write.
CancelUpdate ==
    /\ cancel_pc = "update"
    /\ job' = _update_job_status(job, "cancelled", EmptyDict)
    /\ cancel_pc' = "idle"
    /\ UNCHANGED <<detected_items, import_tasks>>
    /\ UNCHANGED notJobVars

JobNext ==
    \/ \E n \in 0..MaxItems : DetectItems(n)
    \/ \E t \in Tasks, workout_ids \in WorkoutIdLists, async_mode \in BOOLEAN :
            ExecuteImport(t, workout_ids, async_mode)
    \/ \E t \in Tasks : CheckCancelled(t)
    \/ \E t \in Tasks : UpdateProgress(t)
    \/ \E t \in Tasks : ImportItem(t)
    \/ \E t \in Tasks : FinishAsync(t)
    \/ \E t \in Tasks : ReturnSync(t)
    \/ \E t \in Tasks : ProcessRaises(t)
    \/ CancelRead
    \/ CancelUpdate

----------------------------------------------------------------------------
(* Properties of the bulk import job.                                      *)

TerminalStatuses == {"complete", "failed", "cancelled"}

\* C5: once the job's status is complete, failed or cancelled, no later
\* operation (execute_import, the background task finishing, cancel_import)
\* changes it; and every transition into such a status sets completed_at.
C5_TerminalStatusIsFinal ==
    [][/\ job.status \in TerminalStatuses => job'.status = job.status
       /\ (job.status \notin TerminalStatuses /\ job'.status \in TerminalStatuses)
             => job'.completed_at # "null"]_vars

\* The only execute_import call on the job has left its loop by the break,
\* with k items behind it, and has returned; no cancel_import call is open.
CancelledAfter(t, k) ==
    /\ import_tasks[t].pc = "done"
    /\ import_tasks[t].idx = k
    /\ k < Len(import_tasks[t].workout_ids)
    /\ \A u \in Tasks \ {t} : import_tasks[u].pc = "free"
    /\ cancel_pc = "idle"

\* C6: when cancel_import succeeds after item k of an import has completed and
\* before item k+1 starts, the loop processes no further item and the job ends
\* with status cancelled, processed_items = k and exactly k results.
C6_CancelStopsAtItemBoundary ==
    \A t \in Tasks, k \in 0..MaxWorkoutIds :
        CancelledAfter(t, k) =>
            /\ job.status = "cancelled"
            /\ job.processed_items = k
            /\ Len(job.results) = k

\* C7: processed_items <= total_items in every reachable state, whatever the
\* workout id list of the execute call; and processed_items is advanced only
\* after an item has finished, so it never exceeds the items some call has
\* behind it.
C7_ProcessedWithinTotal ==
    /\ job.processed_items <= job.total_items
    /\ \E t \in Tasks : job.processed_items <= import_tasks[t].idx


\* C29: every job on which execute_import is called eventually reaches a
\* terminal stored status (complete, failed or cancelled), in async mode and
\* in sync mode alike, provided the processing of each item terminates: a
\* job whose stored status is running does not keep it forever.
C29_RunningJobReachesTerminalStatus ==
    (job.status = "running") ~> (job.status \in TerminalStatuses)

----------------------------------------------------------------------------
(* Mobile pairing (backend/mobile_pairing.py).  One pairing token; every    *)
(* store call of validate_and_use_token is one step, and the calls of       *)
(* different requests interleave.                                           *)

MaxCallers == 2      \* validate_and_use_token calls on the token

Callers == 1..MaxCallers

\* No row: the state of the table before create_pairing_token.
NoToken == [status |-> "absent", used_at |-> "null", device_info |-> 0, expired |-> FALSE]

IdleCall == [pc |-> "idle", seen |-> "none", result |-> "none"]

PairInit ==
    /\ token_record = NoToken
    /\ profile_exists = FALSE
    /\ pairing_calls = [c \in Callers |-> IdleCall]

\* create_pairing_token: the row is inserted, unused, expiring in
\* TOKEN_EXPIRY_MINUTES; the owner has a profile row or not.
CreatePairingToken(has_profile) ==
    /\ token_record.status = "absent"
    /\ token_record' = [status |-> "stored", used_at |-> "null", device_info |-> 0,
                        expired |-> FALSE]
    /\ profile_exists' = has_profile
    /\ UNCHANGED pairing_calls
    /\ UNCHANGED notPairVars

\* Time passes expires_at.
TokenExpires ==
    /\ token_record.status = "stored"
    /\ ~token_record.expired
    /\ token_record' = [token_record EXCEPT !.expired = TRUE]
    /\ UNCHANGED <<profile_exists, pairing_calls>>
    /\ UNCHANGED notPairVars

\* revoke_user_tokens: the owner's unused tokens are deleted.
RevokeUserTokens ==
    /\ token_record.status = "stored"
    /\ token_record.used_at = "null"
    /\ token_record' = [token_record EXCEPT !.status = "deleted"]
    /\ UNCHANGED <<profile_exists, pairing_calls>>
    /\ UNCHANGED notPairVars

\* What the select and the checks of validate_and_use_token make of the row.
SeenOf(row) ==
    IF row.status # "stored" THEN "invalid_token"
    ELSE IF row.used_at # "null" THEN "token_used"
    ELSE IF row.expired THEN "token_expired"
    ELSE "valid"

\* validate_and_use_token, the select and the checks on the row it returned:
\* an error is returned for a missing, a used or an expired token.
SelectToken(c) ==
    /\ pairing_calls[c].pc = "idle"
    /\ LET seen == SeenOf(token_record)
       IN  pairing_calls' = [pairing_calls EXCEPT ![c] =
              IF seen = "valid"
              THEN [pc |-> "update", seen |-> seen, result |-> "none"]
              ELSE [pc |-> "returned", seen |-> seen, result |-> seen]]
    /\ UNCHANGED <<token_record, profile_exists>>
    /\ UNCHANGED notPairVars

\* validate_and_use_token, the update: used_at and device_info are written to
\* the row with the id read before, whatever used_at it holds by now; None is
\* returned when no row was updated.
MarkUsed(c) ==
    /\ pairing_calls[c].pc = "update"
    /\ IF token_record.status = "stored"
       THEN /\ token_record' = [token_record EXCEPT !.used_at = "timestamp",
                                                    !.device_info = c]
            /\ pairing_calls' = [pairing_calls EXCEPT ![c].pc = "profile"]
       ELSE /\ UNCHANGED token_record
            /\ pairing_calls' = [pairing_calls EXCEPT ![c].pc = "returned",
                                                      ![c].result = "None"]
    /\ UNCHANGED profile_exists
    /\ UNCHANGED notPairVars

\* validate_and_use_token, the profile select and the JWT.
GetProfile(c) ==
    /\ pairing_calls[c].pc = "profile"
    /\ pairing_calls' = [pairing_calls EXCEPT
          ![c].pc = "returned",
          ![c].result = IF profile_exists THEN "jwt" ELSE "profile_not_found"]
    /\ UNCHANGED <<token_record, profile_exists>>
    /\ UNCHANGED notPairVars

PairNext ==
    \/ \E has_profile \in BOOLEAN : CreatePairingToken(has_profile)
    \/ TokenExpires
    \/ RevokeUserTokens
    \/ \E c \in Callers : SelectToken(c)
    \/ \E c \in Callers : MarkUsed(c)
    \/ \E c \in Callers : GetProfile(c)

----------------------------------------------------------------------------
(* Properties of mobile pairing.                                           *)

\* C8: a pairing token is redeemed at most once over any interleaving of
\* validate_and_use_token calls: at most one call returns a JWT; and a call on
\* a token that is already used or expired returns an error and no JWT.
C8_TokenRedeemedAtMostOnce ==
    /\ Cardinality({c \in Callers : pairing_calls[c].result = "jwt"}) <= 1
    /\ \A c \in Callers :
          pairing_calls[c].seen \in {"token_used", "token_expired"} =>
              pairing_calls[c].result = pairing_calls[c].seen


\* C30: a validate_and_use_token call that returns an error or no result
\* (unknown token, already used, expired, profile not found, failed update)
\* leaves the token record unchanged: the record does not hold the used_at
\* and device_info of a call that returned without a JWT.
C30_FailedCallLeavesTokenUnchanged ==
    \A c \in Callers :
        pairing_calls[c].pc = "returned" /\ pairing_calls[c].result # "jwt" =>
            ~(token_record.used_at # "null" /\ token_record.device_info = c)

----------------------------------------------------------------------------
(* Mapping popularity (backend/core/global_mappings.py).  The counts live   *)
(* in one YAML file; record_mapping_choice loads the file, increments one   *)
(* count and rewrites the file, and the endpoints that call it run on the   *)
(* server's thread pool.                                                    *)

MaxThreads == 2      \* record_mapping_choice calls running at once
MaxChoices == 3      \* record_mapping_choice calls in all

Threads == 1..MaxThreads

\* The (normalized exercise name, garmin_name) pairs users choose.
Pairs == {<<"bench press", "Bench Press">>, <<"bench press", "Dumbbell Bench Press">>}

\* mappings[normalized][garmin_name], 0 for a pair the mappings do not hold.
CountOf(mappings, pair) == IF pair \in DOMAIN mappings THEN mappings[pair] ELSE 0

IdleRecord == [pc |-> "idle", pair |-> <<"", "">>, mappings |-> EmptyDict]

PopInit ==
    /\ popularity_file = EmptyDict
    /\ record_calls = [t \in Threads |-> IdleRecord]
    /\ choices_recorded = [pair \in Pairs |-> 0]

\* The record_mapping_choice calls started so far.
ChoicesStarted ==
    LET RECURSIVE Sum(_)
        Sum(S) == IF S = {} THEN 0
                  ELSE LET pair == CHOOSE x \in S : TRUE
                       IN  choices_recorded[pair] + Sum(S \ {pair})
    IN  Sum(Pairs) + Cardinality({t \in Threads : record_calls[t].pc = "loaded"})

\* load_global_mappings: the popular_mappings of the file ({} without a file).
load_global_mappings == popularity_file

\* The increment of record_mapping_choice on the loaded mappings.
Incremented(mappings, pair) ==
    [q \in DOMAIN mappings \cup {pair} |->
        IF q = pair THEN CountOf(mappings, pair) + 1 ELSE mappings[q]]

\* record_mapping_choice up to the load.
RecordLoad(t, pair) ==
    /\ record_calls[t].pc = "idle"
    /\ ChoicesStarted < MaxChoices
    /\ record_calls' = [record_calls EXCEPT ![t] =
          [pc |-> "loaded", pair |-> pair, mappings |-> load_global_mappings]]
    /\ UNCHANGED <<popularity_file, choices_recorded>>
    /\ UNCHANGED notPopVars

\* record_mapping_choice from the increment on: save_global_mappings rewrites
\* the file with the mappings this call loaded, its pair's count incremented.
RecordSave(t) ==
    /\ record_calls[t].pc = "loaded"
    /\ LET call == record_calls[t]
       IN  /\ popularity_file' = Incremented(call.mappings, call.pair)
           /\ choices_recorded' = [choices_recorded EXCEPT ![call.pair] = @ + 1]
    /\ record_calls' = [record_calls EXCEPT ![t] = IdleRecord]
    /\ UNCHANGED notPopVars

PopNext ==
    \/ \E t \in Threads, pair \in Pairs : RecordLoad(t, pair)
    \/ \E t \in Threads : RecordSave(t)

----------------------------------------------------------------------------
(* Properties of mapping popularity.                                       *)

\* C9: the popularity count of a pair never decreases, under any sequence or
\* interleaving of record_mapping_choice calls.
C9_PopularityNeverDecreases ==
    [][\A pair \in Pairs :
          CountOf(popularity_file', pair) >= CountOf(popularity_file, pair)]_vars

\* C10: n record_mapping_choice calls for the same pair, run concurrently,
\* grow the pair's count by exactly n: once the calls have returned, the count
\* of every pair is the number of calls made for it.
C10_ConcurrentChoicesAllCounted ==
    (\A t \in Threads : record_calls[t].pc = "idle") =>
        \A pair \in Pairs : CountOf(popularity_file, pair) = choices_recorded[pair]

----------------------------------------------------------------------------
(* User mapping store (backend/core/user_mappings.py).                     *)
(*                                                                         *)
(* add_user_mapping and remove_user_mapping load the whole mappings dict   *)
(* of user_mappings.yaml, change one key and write the whole dict back.    *)
(* The endpoints calling them (app.py, /mappings/add, /mappings/remove)    *)
(* are plain def handlers, so calls run on the server's thread pool and    *)
(* interleave between the load and the save.  Keys are already normalized. *)

MappingKeys == {"bench press", "goblet squat"}

GarminNames == {"Bench Press", "Dumbbell Bench Press"}

IdleMappingCall == [pc |-> "idle", normalized |-> "", garmin_name |-> "", mappings |-> EmptyDict]

MapInit ==
    /\ user_mappings_file = EmptyDict
    /\ mapping_calls = [t \in Threads |-> IdleMappingCall]
    /\ last_written = [k \in MappingKeys |-> ""]

load_user_mappings == user_mappings_file

\* add_user_mapping up to the load (lines 46-47).
AddUserMappingLoad(t, normalized, garmin_name) ==
    /\ mapping_calls[t].pc = "idle"
    /\ mapping_calls' = [mapping_calls EXCEPT ![t] =
          [pc |-> "add", normalized |-> normalized, garmin_name |-> garmin_name,
           mappings |-> load_user_mappings]]
    /\ UNCHANGED <<user_mappings_file, last_written>>
    /\ UNCHANGED notMapVars

\* add_user_mapping from the assignment on (lines 48-51): save_user_mappings
\* rewrites the file with the dict this call loaded, its key set.
AddUserMappingSave(t) ==
    /\ mapping_calls[t].pc = "add"
    /\ LET call == mapping_calls[t]
       IN  /\ user_mappings_file' =
                [k \in DOMAIN call.mappings \cup {call.normalized} |->
                    IF k = call.normalized THEN call.garmin_name ELSE call.mappings[k]]
           /\ last_written' = [last_written EXCEPT ![call.normalized] = call.garmin_name]
    /\ mapping_calls' = [mapping_calls EXCEPT ![t] = IdleMappingCall]
    /\ UNCHANGED notMapVars

\* remove_user_mapping up to the load (lines 58-59).
RemoveUserMappingLoad(t, normalized) ==
    /\ mapping_calls[t].pc = "idle"
    /\ mapping_calls' = [mapping_calls EXCEPT ![t] =
          [pc |-> "remove", normalized |-> normalized, garmin_name |-> "",
           mappings |-> load_user_mappings]]
    /\ UNCHANGED <<user_mappings_file, last_written>>
    /\ UNCHANGED notMapVars

\* remove_user_mapping from the membership test on (lines 61-66): the key is
\* deleted from the loaded dict and the dict saved, or, when the loaded dict
\* does not hold the key, nothing is written and the call returns False.
RemoveUserMappingSave(t) ==
    /\ mapping_calls[t].pc = "remove"
    /\ LET call == mapping_calls[t]
       IN  IF Has(call.mappings, call.normalized)
           THEN /\ user_mappings_file' =
                     [k \in DOMAIN call.mappings \ {call.normalized} |-> call.mappings[k]]
                /\ last_written' = [last_written EXCEPT ![call.normalized] = ""]
           ELSE UNCHANGED <<user_mappings_file, last_written>>
    /\ mapping_calls' = [mapping_calls EXCEPT ![t] = IdleMappingCall]
    /\ UNCHANGED notMapVars

MapNext ==
    \/ \E t \in Threads, k \in MappingKeys, g \in GarminNames : AddUserMappingLoad(t, k, g)
    \/ \E t \in Threads : AddUserMappingSave(t)
    \/ \E t \in Threads, k \in MappingKeys : RemoveUserMappingLoad(t, k)
    \/ \E t \in Threads : RemoveUserMappingSave(t)

----------------------------------------------------------------------------
(* Properties of the user mapping store.                                   *)

\* C11: user-mapping writes are last-writer-wins per normalized key: under
\* any interleaving of add_user_mapping and remove_user_mapping calls each
\* key holds what the last write to that key stored, so a write to one key
\* never removes or reverts the mapping stored under another key.
C11_LastWriterWinsPerKey ==
    \A k \in MappingKeys : GetOr(user_mappings_file, k, "") = last_written[k]

----------------------------------------------------------------------------
(* Workouts table (backend/database.py, save_workout).                     *)
(*                                                                         *)
(* The rows of one profile.  save_workout selects the row to update and    *)
(* then updates or inserts in a second request to the database; the        *)
(* endpoint (app.py, /workouts/save) is a plain def handler, so calls run  *)
(* on the server's thread pool and interleave between the two requests.    *)
(* Ids are handed out in insertion order, which is also created_at order.  *)

MaxRows == 3         \* rows the table can take

Titles == {"Leg Day", "Push Day"}

Devices == {"garmin", "apple"}

NoWorkoutId == 0     \* workout_id=None

IdleSave == [pc |-> "idle", title |-> "", device |-> "", existing_workout |-> NoWorkoutId]

SaveInit ==
    /\ workouts = EmptyDict
    /\ save_calls = [t \in Threads |-> IdleSave]

\* The row save_workout takes as existing_workout (lines 70-82), None as
\* NoWorkoutId: with a workout_id the row of that id, otherwise the newest
\* row of the same title and device.
ExistingWorkout(title, device, workout_id) ==
    IF workout_id # NoWorkoutId
    THEN IF Has(workouts, workout_id) THEN workout_id ELSE NoWorkoutId
    ELSE LET same == {id \in DOMAIN workouts :
                        workouts[id].title = title /\ workouts[id].device = device}
         IN  IF same = {} THEN NoWorkoutId
             ELSE CHOOSE id \in same : \A other \in same : other <= id

\* save_workout up to the select (lines 60-82), title non-empty.
SaveSelect(t, title, device, workout_id) ==
    /\ save_calls[t].pc = "idle"
    /\ save_calls' = [save_calls EXCEPT ![t] =
          [pc |-> "selected", title |-> title, device |-> device,
           existing_workout |-> ExistingWorkout(title, device, workout_id)]]
    /\ UNCHANGED workouts
    /\ UNCHANGED notSaveVars

\* save_workout from the row data on (lines 84-119): the existing row is
\* updated with the call's title and device, or a new row is inserted.
SaveWrite(t) ==
    /\ save_calls[t].pc = "selected"
    /\ LET call == save_calls[t]
           row == [title |-> call.title, device |-> call.device]
           new_id == Cardinality(DOMAIN workouts) + 1
       IN  IF call.existing_workout # NoWorkoutId
           THEN workouts' = [workouts EXCEPT ![call.existing_workout] = row]
           ELSE /\ new_id <= MaxRows
                /\ workouts' = [id \in DOMAIN workouts \cup {new_id} |->
                                   IF id = new_id THEN row ELSE workouts[id]]
    /\ save_calls' = [save_calls EXCEPT ![t] = IdleSave]
    /\ UNCHANGED notSaveVars

SaveNext ==
    \/ \E t \in Threads, title \in Titles, device \in Devices, workout_id \in 0..MaxRows :
          SaveSelect(t, title, device, workout_id)
    \/ \E t \in Threads : SaveWrite(t)

----------------------------------------------------------------------------
(* Properties of the workouts table.                                       *)

\* C12: saving is idempotent on the dedup key: after any sequence or
\* interleaving of save_workout calls with a non-empty title the table holds
\* at most one row per (profile_id, title, device).
C12_OneRowPerDedupKey ==
    \A id \in DOMAIN workouts, other \in DOMAIN workouts :
        workouts[id] = workouts[other] => id = other

----------------------------------------------------------------------------
(* Name normalization: GarminExerciseLookup.normalize                      *)
(* (backend/adapters/garmin_lookup.py) and normalize_name                  *)
(* (backend/mapping/exercise_name_matcher.py).  Names are sequences of     *)
(* one-character strings; the only whitespace character is the space.      *)

MaxPieces == 3       \* pieces a name is built from

Letters ==
    {"a", "b", "c", "d", "e", "f", "g", "h", "i", "j", "k", "l", "m",
     "n", "o", "p", "q", "r", "s", "t", "u", "v", "w", "x", "y", "z"}

StartsWith(s, prefix) == Len(s) >= Len(prefix) /\ SubSeq(s, 1, Len(prefix)) = prefix

\* s[n:]
Drop(s, n) == SubSeq(s, n + 1, Len(s))

\* Length of the run of spaces that starts s.
SpaceLen(s) == Len(s) - Len(LStrip(s))

\* re.sub(pattern + '.*$', '', s), places being the positions of s where the
\* pattern matches: s up to the leftmost of them.
CutAtFirst(s, places) ==
    IF places = {} THEN s
    ELSE SubSeq(s, 1, (CHOOSE i \in places : \A j \in places : i <= j) - 1)

\* GarminExerciseLookup.normalize (lines 60-86).
normalize(name) ==
    LET RECURSIVE RStripPipe(_)
        RStripPipe(s) ==
            IF s # <<>> /\ s[Len(s)] = "|" THEN RStripPipe(SubSeq(s, 1, Len(s) - 1)) ELSE s
        RECURSIVE SeparatorLen(_)
        SeparatorLen(s) ==
            IF s # <<>> /\ Head(s) \in {";", ":", " "} THEN 1 + SeparatorLen(Tail(s)) ELSE 0
        \* ^[a-z]\d+[;:\s]+
        SetLabelLen(s) ==
            IF s # <<>> /\ Head(s) \in Letters
            THEN LET digits == DigitPrefixLen(Tail(s))
                     seps   == SeparatorLen(Drop(s, 1 + digits))
                 IN  IF digits >= 1 /\ seps >= 1 THEN 1 + digits + seps ELSE 0
            ELSE 0
        prefixes ==
            <<<<"d", "b", " ">>, <<"k", "b", " ">>, <<"b", "b", " ">>, <<"s", "b", " ">>,
              <<"m", "b", " ">>, <<"t", "r", "x", " ">>,
              <<"c", "a", "b", "l", "e", " ">>, <<"b", "a", "n", "d", " ">>>>
        RECURSIVE StripPrefixes(_, _)
        StripPrefixes(s, k) ==
            IF k > Len(prefixes) THEN s
            ELSE StripPrefixes(IF StartsWith(s, prefixes[k])
                               THEN Drop(s, Len(prefixes[k])) ELSE s, k + 1)
        \* \s*x\s*\d+
        RepCountAt(s) ==
            LET after_x == Drop(s, SpaceLen(s) + 1)
                digit   == Drop(after_x, SpaceLen(after_x))
            IN  /\ Len(s) > SpaceLen(s) /\ s[SpaceLen(s) + 1] = "x"
                /\ digit # <<>> /\ IsDigit(Head(digit))
        \* \s+(each|per)\s+(side|arm|leg)
        EachSideAt(s) ==
            /\ SpaceLen(s) >= 1
            /\ \E word \in {<<"e", "a", "c", "h">>, <<"p", "e", "r">>} :
                  /\ StartsWith(LStrip(s), word)
                  /\ LET rest == Drop(LStrip(s), Len(word))
                     IN  /\ SpaceLen(rest) >= 1
                         /\ \E part \in {<<"s", "i", "d", "e">>, <<"a", "r", "m">>,
                                         <<"l", "e", "g">>} :
                                StartsWith(LStrip(rest), part)
        \* [\d.]+\s*(m|km) followed by ending, one of "end" (\s*$) or "space" (\s+)
        DistanceLen(s, ending) ==
            LET number == NumPrefixLen(s)
                unit   == LStrip(Drop(s, number))
                gap    == Len(s) - number - Len(unit)
                Ends(rest) == IF ending = "end" THEN LStrip(rest) = <<>>
                              ELSE SpaceLen(rest) >= 1
            IN  IF number = 0 THEN 0
                ELSE IF StartsWith(unit, <<"m">>) /\ Ends(Drop(unit, 1))
                THEN number + gap + 1 + SpaceLen(Drop(unit, 1))
                ELSE IF StartsWith(unit, <<"k", "m">>) /\ Ends(Drop(unit, 2))
                THEN number + gap + 2 + SpaceLen(Drop(unit, 2))
                ELSE 0
        \* \s*[\d.]+\s*(m|km)\s*$
        EndDistanceAt(s) == DistanceLen(LStrip(s), "end") > 0
        stripped  == Strip(RStripPipe(Strip(Lower(name))))
        unlabeled == Drop(stripped, SetLabelLen(stripped))
        bare      == StripPrefixes(unlabeled, 1)
        no_reps   == CutAtFirst(bare,
                        {i \in 1..Len(bare) : RepCountAt(Drop(bare, i - 1))})
        no_sides  == CutAtFirst(no_reps,
                        {i \in 1..Len(no_reps) : EachSideAt(Drop(no_reps, i - 1))})
        no_end    == CutAtFirst(no_sides,
                        {i \in 1..Len(no_sides) : EndDistanceAt(Drop(no_sides, i - 1))})
        no_start  == Drop(no_end, DistanceLen(no_end, "space"))
    IN  Strip(no_start)

\* str.replace(old, new)
RECURSIVE Replace(_, _, _)
Replace(s, old, new) ==
    IF s = <<>> THEN <<>>
    ELSE IF StartsWith(s, old) THEN new \o Replace(Drop(s, Len(old)), old, new)
    ELSE <<Head(s)>> \o Replace(Tail(s), old, new)

\* normalize_name (lines 7-41).
normalize_name(name) ==
    LET replacements ==
            <<<< <<"d", "b", " ">>, <<"d", "u", "m", "b", "b", "e", "l", "l", " ">> >>,
              << <<"b", "b", " ">>, <<"b", "a", "r", "b", "e", "l", "l", " ">> >>,
              << <<"w", "b", " ">>, <<"w", "a", "l", "l", " ", "b", "a", "l", "l", " ">> >>,
              << <<"k", "b", " ">>, <<"k", "e", "t", "t", "l", "e", "b", "e", "l", "l", " ">> >>,
              << <<"o", "h", " ">>, <<"o", "v", "e", "r", "h", "e", "a", "d", " ">> >>,
              << <<"o", "h", "p">>,
                 <<"o", "v", "e", "r", "h", "e", "a", "d", " ", "p", "r", "e", "s", "s">> >>,
              << <<"p", "u", " ">>, <<"p", "u", "s", "h", " ", "u", "p", " ">> >>,
              << <<"p", "r", "e", "s", "s", "u", "p">>, <<"p", "u", "s", "h", " ", "u", "p">> >> >>
        RECURSIVE Expand(_, _)
        Expand(s, k) ==
            IF k > Len(replacements) THEN s
            ELSE Expand(Replace(s, replacements[k][1], replacements[k][2]), k + 1)
        \* [^a-z0-9\s] (and "-", "_") to a space
        Plain(s) ==
            [i \in 1..Len(s) |->
                IF s[i] \in Letters \/ IsDigit(s[i]) \/ IsSpace(s[i]) THEN s[i] ELSE " "]
        \* \s+ to one space
        RECURSIVE Collapse(_)
        Collapse(s) ==
            IF s = <<>> THEN <<>>
            ELSE IF IsSpace(Head(s)) THEN <<" ">> \o Collapse(LStrip(s))
            ELSE <<Head(s)>> \o Collapse(Tail(s))
    IN  IF name = <<>> THEN <<>>
        ELSE Strip(Collapse(Plain(Expand(Strip(Lower(name)), 1))))

\* The pieces callers build exercise names from.
NamePieces ==
    {<<"d", "b", " ">>, <<"k", "b", " ">>, <<"d", "b", "-">>, <<"a", "1", ":", " ">>,
     <<"r", "o", "w">>, <<" ", "X", "8">>, <<" ", "p", "e", "r", " ", "a", "r", "m">>,
     <<" ", "1", ".", "5", " ", "K", "m">>, <<"1", "k", "m", " ">>, <<"|">>}

RECURSIVE Concat(_)
Concat(pieces) == IF pieces = <<>> THEN <<>> ELSE Head(pieces) \o Concat(Tail(pieces))

NormInit ==
    /\ name_input = <<>>
    /\ normalized_name = <<>>
    /\ norm_pc = "typing"

\* The caller appends a piece to the name.
TypePiece(piece) ==
    /\ norm_pc = "typing"
    /\ Len(name_input) < MaxPieces
    /\ name_input' = Append(name_input, piece)
    /\ UNCHANGED <<normalized_name, norm_pc>>
    /\ UNCHANGED notNormVars

\* lookup.normalize(name) returns.
Normalize ==
    /\ norm_pc = "typing"
    /\ normalized_name' = normalize(Concat(name_input))
    /\ norm_pc' = "lookup"
    /\ UNCHANGED name_input
    /\ UNCHANGED notNormVars

\* normalize_name(name) returns.
NormalizeName ==
    /\ norm_pc = "typing"
    /\ normalized_name' = normalize_name(Concat(name_input))
    /\ norm_pc' = "matcher"
    /\ UNCHANGED name_input
    /\ UNCHANGED notNormVars

NormNext ==
    \/ \E piece \in NamePieces : TypePiece(piece)
    \/ Normalize
    \/ NormalizeName

----------------------------------------------------------------------------
(* Properties of name normalization.                                       *)

\* C14: name normalization is idempotent: for every input string x,
\* normalize(normalize(x)) = normalize(x), and likewise for normalize_name.
C14_NormalizationIdempotent ==
    /\ norm_pc = "lookup" => normalize(normalized_name) = normalized_name
    /\ norm_pc = "matcher" => normalize_name(normalized_name) = normalized_name

----------------------------------------------------------------------------
(* Exercise resolution: map_exercise_to_garmin                             *)
(* (backend/adapters/blocks_to_hyrox_yaml.py) and the batch match endpoint *)
(* (backend/app.py).  The stores and matchers the resolver consults are    *)
(* inputs: what each layer answers for the name.  Confidences are in       *)
(* hundredths (0.95 is 95); a key that holds None is absent.               *)

MaxPopularity == 3   \* the largest count of the most popular mapping
MaxValidated == 2    \* exercises of a validated workout
MaxNames == 3        \* exercise names of the workouts of a match call
MaxYamlExercises == 2  \* exercises of an exported block

\* What the layers answer for one exercise name: the user mapping ("" for
\* none), the count of the most popular mapping (0 for none), the curated
\* table ("none", "exact", "substring"), find_garmin_exercise with threshold
\* 40 and the canonical classifier's score (0 for no match).
LayerAnswers ==
    [user_mapped : {"", "Goblet Squat"},
     popularity_count : 0..MaxPopularity,
     manual : {"none", "exact", "substring"},
     fuzzy : {0, 40, 72, 100},
     canonical : {0, 35, 80}]

\* map_exercise_to_garmin, lines 138-340: the mapping_info the layers build.
ResolveLayers(answers) ==
    LET original == [original_name |-> "name"]
        Info(source, confidence) ==
            [source |-> source, confidence |-> confidence] @@ original
    IN  IF answers.user_mapped # "" THEN original
        ELSE IF answers.popularity_count > 0
        THEN Info("popular_mapping",
                  IF 70 + answers.popularity_count * 5 < 95
                  THEN 70 + answers.popularity_count * 5 ELSE 95)
        ELSE IF answers.manual = "exact" THEN Info("manual_mapping", 100)
        ELSE IF answers.manual = "substring" THEN Info("manual_mapping", 95)
        ELSE IF answers.fuzzy > 0 THEN Info("garmin_database", answers.fuzzy)
        ELSE IF answers.canonical > 0 THEN Info("canonical_mapping", answers.canonical)
        ELSE Info("fallback", 0)

\* map_exercise_to_garmin (lines 138-491): the mapping_info built, and the
\* exception the call ends with ("" when it returns).  The confidence check
\* of lines 376-377 compares None with 0.40 on the user-mapping path, and
\* the branch it guards reads effective_name, which the function never binds.
map_exercise_to_garmin(answers) ==
    LET mapping_info == ResolveLayers(answers)
    IN  [mapping_info |-> mapping_info,
         raised |-> IF ~Has(mapping_info, "confidence") THEN "TypeError"
                    ELSE IF mapping_info.confidence < 40 THEN "NameError"
                    ELSE ""]

\* One result of match_exercises_batch with needs_review from 0.70 up.
match_exercises_batchReviewFrom70(found, suggested) ==
    IF found >= 90 THEN [status |-> "matched", confidence |-> found]
    ELSE IF found >= 70 THEN [status |-> "needs_review", confidence |-> found]
    ELSE [status |-> "unmapped",
          confidence |-> IF suggested > 0 /\ found = 0 THEN suggested ELSE found]

\* One result of match_exercises_batch (lines 2777-2802): found is the
\* confidence find_garmin_exercise(name, threshold=30) returned (0 with no
\* match), suggested the confidence of the first suggestion (0 with none).
match_exercises_batch(found, suggested) ==
    IF found >= 90 THEN [status |-> "matched", confidence |-> found]
    ELSE IF found >= 50 THEN [status |-> "needs_review", confidence |-> found]
    ELSE [status |-> "unmapped",
          confidence |-> IF suggested > 0 /\ found = 0 THEN suggested ELSE found]

\* The exercises extract_all_exercises_from_blocks hands to the validation
\* (backend/core/workflow.py): one without a name, and named ones with what
\* the resolver's layers answer for the name.
ValidatedExercises ==
    {[name |-> ""]} \cup
    {[name |-> "name", answers |-> answers] :
        answers \in {a \in LayerAnswers :
                        a.popularity_count = 0 /\ a.manual = "none" /\ a.canonical = 0}}

\* validate_workout_mapping (workflow.py lines 44-113) on the extracted
\* exercises.  Exercises without a name are skipped (lines 60-62).  For the
\* first named one, map_exercise_to_garmin either raises, or returns its
\* three values, which line 65 unpacks into two names: ValueError.  Lines
\* 71-108 are reached for no exercise, so the lists of the returned results
\* are empty and can_proceed keeps its initial True.
validate_workout_mapping(exercises) ==
    LET named == {i \in 1..Len(exercises) : exercises[i].name # ""}
    IN  IF named = {}
        THEN [raised |-> "",
              results |-> [total_exercises |-> Len(exercises),
                           validated_exercises |-> <<>>,
                           needs_review |-> <<>>,
                           unmapped_exercises |-> <<>>,
                           can_proceed |-> TRUE]]
        ELSE LET first == CHOOSE i \in named : \A j \in named : i <= j
                 call  == map_exercise_to_garmin(exercises[first].answers)
             IN  [raised |-> IF call.raised # "" THEN call.raised ELSE "ValueError"]

\* The exercise names of a match call in sorted order, with what the matcher
\* answers for each: found is the confidence of find_garmin_exercise(name,
\* threshold=30), 0 for no match; suggested the confidence of the first of
\* get_garmin_suggestions(name, score_cutoff=0.3), 0 for none (top-N of the
\* same similarity, so a name without a match has no suggestion either).
MatcherAnswers ==
    <<[name |-> "Bench Press", found |-> 100, suggested |-> 100],
      [name |-> "Flat Press", found |-> 50, suggested |-> 50],
      [name |-> "Goblet Sqat", found |-> 89, suggested |-> 89],
      [name |-> "Goblet Squats", found |-> 90, suggested |-> 90],
      [name |-> "Prowler Sled", found |-> 49, suggested |-> 49],
      [name |-> "xyzzy", found |-> 0, suggested |-> 0]>>

\* BulkImportService.match_exercises (backend/bulk_import.py lines
\* 1097-1219): names are the exercise names of the selected workouts in
\* reading order ("" for an exercise without a name), user_mappings the
\* names the caller supplies a mapping for.  One ExerciseMatch per distinct
\* name, in sorted order, and the counters of the response.
match_exercises(names, user_mappings) ==
    LET exercise_names == {names[i] : i \in 1..Len(names)} \ {""}
        sorted    == SelectSeq(MatcherAnswers, LAMBDA a : a.name \in exercise_names)
        exercises ==
            [k \in 1..Len(sorted) |->
                [original_name |-> sorted[k].name,
                 occurrence_count |->
                     Cardinality({i \in 1..Len(names) : names[i] = sorted[k].name})]
                @@ IF sorted[k].name \in user_mappings
                   THEN [status |-> "matched", confidence |-> 100]
                   ELSE match_exercises_batch(sorted[k].found, sorted[k].suggested)]
        Count(status) ==
            Cardinality({k \in 1..Len(exercises) : exercises[k].status = status})
    IN  [exercises |-> exercises,
         total_exercises |-> Len(exercises),
         matched |-> Count("matched"),
         needs_review |-> Count("needs_review"),
         unmapped |-> Count("unmapped")]

\* The exercises of the block a YAML export is made of: the name as the
\* characters of the string with what the resolver's layers answer for it,
\* the duration form (reps, duration_sec with or without sets, or none), and
\* whether the exercise stands in the block's exercises or in one of its
\* supersets.  The names hold no "N reps" or "N wb" wording and no trailing
\* rep description other than X8.
YamlExercises ==
    LET Answers(popularity_count, fuzzy) ==
            [user_mapped |-> "", popularity_count |-> popularity_count,
             manual |-> "none", fuzzy |-> fuzzy, canonical |-> 0]
    IN  {named @@ form @@ [in_superset |-> in_superset] :
            named \in {[name |-> <<"A", "1", ":", " ", "R", "o", "w">>,
                        answers |-> Answers(1, 0)],
                       [name |-> <<"A", "1", ":", " ", "R", "o", "w">>,
                        answers |-> Answers(MaxPopularity, 0)],
                       [name |-> <<" ", "R", "o", "w", " ">>, answers |-> Answers(0, 72)],
                       [name |-> <<"R", "o", "w", " ", "X", "8">>, answers |-> Answers(0, 72)],
                       [name |-> <<"R", "o", "w", " ", "X", "8">>, answers |-> Answers(0, 0)]},
            form \in {<<>>, [reps |-> 8], [duration_sec |-> 60],
                      [duration_sec |-> 60, sets |-> 3]},
            in_superset \in BOOLEAN}

\* map_exercise_to_garmin, lines 418-441: the reason of the note.  users is
\* the count the text holds in place of N, 0 for a text without a count.
mapping_reason(answers) ==
    LET source == ResolveLayers(answers).source
    IN  IF source = "popular_mapping"
        THEN IF answers.popularity_count = 1
             THEN [text |-> "chosen as popular choice by users", users |-> 0]
             ELSE [text |-> "chosen as popular choice by N users",
                   users |-> answers.popularity_count]
        ELSE [text |-> IF source = "manual_mapping" THEN "chosen as exact match"
                       ELSE IF source = "garmin_database" THEN "chosen as closest match"
                       ELSE IF source = "canonical_mapping" THEN "chosen as best match"
                       ELSE "used name as-is (no match found)",
              users |-> 0]

\* map_exercise_to_garmin, lines 446-491: final_description, the string
\* "lap | <original_with_details> (<mapping_reason>)" as its three parts
\* ("lap (<mapping_reason>)" when original_with_details is empty).  The name
\* is stripped, loses a leading letter, digits and run of colons, semicolons
\* and whitespace (re.sub of line 449), is stripped again, and gains " x<reps>"
\* unless it holds an X or x followed by a digit (lines 453-478).
final_description(ex_name, exercise, answers) ==
    LET stripped == Strip(ex_name)
        IsSeparator(c) == c \in {":", ";", " "}
        digits == {k \in 2..Len(stripped) : \A i \in 2..k : IsDigit(stripped[i])}
        seps   == {k \in 1..Len(stripped) :
                      /\ digits # {}
                      /\ \A d \in digits : d < k
                      /\ \A i \in 2..k : IsDigit(stripped[i]) \/ IsSeparator(stripped[i])}
        labelled == /\ stripped # <<>>
                    /\ stripped[1] \in Letters \cup
                          {"A", "B", "C", "D", "E", "F", "G", "H", "I", "J", "K", "L", "M",
                           "N", "O", "P", "Q", "R", "S", "T", "U", "V", "W", "X", "Y", "Z"}
                    /\ seps # {}
        start == IF labelled THEN 1 + CHOOSE k \in seps : \A j \in seps : j <= k ELSE 1
        original == Strip(SubSeq(stripped, start, Len(stripped)))
        has_reps_in_name ==
            \E i \in 1..(Len(original) - 1) :
                original[i] \in {"X", "x"} /\ IsDigit(original[i + 1])
    IN  [target |-> "lap",
         original_with_details |->
             IF ~has_reps_in_name /\ Has(exercise, "reps")
             THEN original \o <<" ", "x", DigitChars[exercise.reps + 1]>>
             ELSE original,
         mapping_reason |-> mapping_reason(answers)]

\* to_hyrox_yaml with the exercises of supersets timed like standalone ones.
to_hyrox_yamlTimedSupersets(exercises) ==
    LET raising == {i \in 1..Len(exercises) :
                       map_exercise_to_garmin(exercises[i].answers).raised # ""}
        Entry(i) ==
            IF Has(exercises[i], "duration_sec")
            THEN [exercise |-> i, target |-> "time", seconds |-> exercises[i].duration_sec,
                  repeat |-> IF Has(exercises[i], "sets") THEN exercises[i].sets ELSE 1]
            ELSE [exercise |-> i, repeat |-> 1]
                     @@ final_description(exercises[i].name, exercises[i], exercises[i].answers)
        Entries(in_superset) ==
            LET of == SelectSeq([i \in 1..Len(exercises) |-> i],
                                LAMBDA i : exercises[i].in_superset = in_superset)
            IN  [k \in 1..Len(of) |-> Entry(of[k])]
    IN  IF raising # {}
        THEN [raised |-> map_exercise_to_garmin(
                            exercises[CHOOSE i \in raising : \A j \in raising : i <= j].answers).raised]
        ELSE [raised |-> "", steps |-> Entries(TRUE) \o Entries(FALSE)]

\* to_hyrox_yaml (lines 516-687) on a block of one round: the entries of the
\* exercises in the document, those of the supersets before the standalone
\* ones (lines 644-657), each with the index of its exercise; warm-up and rest
\* entries are left out.  A standalone exercise with duration_sec gets its
\* time "<duration_sec>s" alone, inside a repeat(sets) when it has sets
\* (lines 561-576); every other exercise gets final_description (lines 577-580
\* and 622-623).  The resolver is called for the standalone exercises
\* first, and its exception ends the export.
to_hyrox_yaml(exercises) ==
    LET raising == {i \in 1..Len(exercises) :
                       map_exercise_to_garmin(exercises[i].answers).raised # ""}
        standalone == {i \in raising : ~exercises[i].in_superset}
        first == IF standalone # {}
                 THEN CHOOSE i \in standalone : \A j \in standalone : i <= j
                 ELSE CHOOSE i \in raising : \A j \in raising : i <= j
        Entry(i) ==
            IF Has(exercises[i], "duration_sec") /\ ~exercises[i].in_superset
            THEN [exercise |-> i, target |-> "time", seconds |-> exercises[i].duration_sec,
                  repeat |-> IF Has(exercises[i], "sets") THEN exercises[i].sets ELSE 1]
            ELSE [exercise |-> i, repeat |-> 1]
                     @@ final_description(exercises[i].name, exercises[i], exercises[i].answers)
        Entries(in_superset) ==
            LET of == SelectSeq([i \in 1..Len(exercises) |-> i],
                                LAMBDA i : exercises[i].in_superset = in_superset)
            IN  [k \in 1..Len(of) |-> Entry(of[k])]
    IN  IF raising # {}
        THEN [raised |-> map_exercise_to_garmin(exercises[first].answers).raised]
        ELSE [raised |-> "", steps |-> Entries(TRUE) \o Entries(FALSE)]

\* No call made yet.  The calls share no state: each behaviour makes one.
ResolveInit == resolver_call = [op |-> "none"]

MapExerciseToGarmin(answers) ==
    /\ resolver_call.op = "none"
    /\ resolver_call' =
          [op |-> "map_exercise_to_garmin", answers |-> answers]
              @@ map_exercise_to_garmin(answers)
    /\ UNCHANGED notResolveVars

MatchExercisesBatch(found, suggested) ==
    /\ resolver_call.op = "none"
    /\ resolver_call' =
          [op |-> "match_exercises_batch", found |-> found, suggested |-> suggested,
           result |-> match_exercises_batch(found, suggested)]
    /\ UNCHANGED notResolveVars

ValidateWorkoutMapping(exercises) ==
    /\ resolver_call.op = "none"
    /\ resolver_call' =
          [op |-> "validate_workout_mapping", exercises |-> exercises]
              @@ validate_workout_mapping(exercises)
    /\ UNCHANGED notResolveVars

MatchExercises(names, user_mappings) ==
    /\ resolver_call.op = "none"
    /\ resolver_call' =
          [op |-> "match_exercises", names |-> names, user_mappings |-> user_mappings,
           response |-> match_exercises(names, user_mappings)]
    /\ UNCHANGED notResolveVars

ToHyroxYaml(exercises) ==
    /\ resolver_call.op = "none"
    /\ resolver_call' =
          [op |-> "to_hyrox_yaml", exercises |-> exercises] @@ to_hyrox_yaml(exercises)
    /\ UNCHANGED notResolveVars

ResolveNext ==
    \/ /\ resolver_call.op = "none"
       /\ \E exercises \in SeqsUpTo(YamlExercises, MaxYamlExercises) :
             ToHyroxYaml(exercises)
    \/ \E answers \in LayerAnswers : MapExerciseToGarmin(answers)
    \/ /\ resolver_call.op = "none"
       /\ \E names \in SeqsUpTo({""} \cup {MatcherAnswers[k].name : k \in DOMAIN MatcherAnswers},
                                 MaxNames),
             user_mappings \in SUBSET {"Goblet Sqat", "xyzzy"} :
             MatchExercises(names, user_mappings)
    \/ /\ resolver_call.op = "none"
       /\ \E exercises \in SeqsUpTo(ValidatedExercises, MaxValidated) :
             ValidateWorkoutMapping(exercises)
    \/ \E found \in {0, 30, 50, 72, 90, 100}, suggested \in {0, 30, 45} :
          MatchExercisesBatch(found, suggested)
----------------------------------------------------------------------------
(* Properties of exercise resolution.                                      *)

\* C15: every resolution has a confidence in [0, 1] and a provenance from
\* the declared set: map_exercise_to_garmin returns such a mapping info on
\* every path, and every result of the batch match endpoint has a confidence
\* between 0 and 1 and a status among matched, needs_review, unmapped.
C15_ResolutionHasConfidenceAndProvenance ==
    /\ resolver_call.op = "map_exercise_to_garmin" =>
          /\ resolver_call.raised = ""
          /\ Has(resolver_call.mapping_info, "source")
          /\ resolver_call.mapping_info.source \in
                {"user_mapping", "popular_mapping", "manual_mapping",
                 "garmin_database", "canonical_mapping", "fallback"}
          /\ Has(resolver_call.mapping_info, "confidence")
          /\ resolver_call.mapping_info.confidence \in 0..100
    /\ resolver_call.op = "match_exercises_batch" =>
          /\ resolver_call.result.confidence \in 0..100
          /\ resolver_call.result.status \in {"matched", "needs_review", "unmapped"}

\* The status the thresholds give a best confidence (in hundredths).
StatedStatus(confidence) ==
    IF confidence >= 90 THEN "matched"
    ELSE IF confidence >= 50 THEN "needs_review"
    ELSE "unmapped"

\* C21: a match response holds exactly one entry for each distinct exercise
\* name, with status matched when the name has a user mapping (confidence
\* 1.0) or the matcher's confidence is at least 0.90, needs_review from
\* 0.50 up to below 0.90, unmapped otherwise, and its counters satisfy
\* total = matched + needs_review + unmapped; a result of the batch endpoint
\* has the status of its matcher confidence.
C21_EachNameHasOneStatus ==
    /\ resolver_call.op = "match_exercises" =>
          LET response == resolver_call.response
              names    == resolver_call.names
              distinct == {names[i] : i \in 1..Len(names)} \ {""}
              EntriesOf(name) ==
                  {k \in 1..Len(response.exercises) :
                      response.exercises[k].original_name = name}
          IN  /\ \A name \in distinct : Cardinality(EntriesOf(name)) = 1
              /\ \A k \in 1..Len(response.exercises) :
                    LET entry  == response.exercises[k]
                        answer == CHOOSE a \in {MatcherAnswers[j] : j \in DOMAIN MatcherAnswers} :
                                      a.name = entry.original_name
                    IN  /\ entry.original_name \in distinct
                        /\ IF entry.original_name \in resolver_call.user_mappings
                           THEN entry.status = "matched" /\ entry.confidence = 100
                           ELSE entry.status = StatedStatus(answer.found)
              /\ response.total_exercises = Cardinality(distinct)
              /\ response.total_exercises =
                    response.matched + response.needs_review + response.unmapped
    /\ resolver_call.op = "match_exercises_batch" =>
          resolver_call.result.status = StatedStatus(resolver_call.found)

\* A response for three exercises, two of them with the same name: a name
\* matched by its user mapping although the matcher finds nothing, and a
\* name in the review band.
C21_Witness ==
    /\ resolver_call.op = "match_exercises"
    /\ resolver_call.names = <<"xyzzy", "Flat Press", "xyzzy">>
    /\ resolver_call.user_mappings = {"xyzzy"}
    /\ resolver_call.response.total_exercises = 2
    /\ resolver_call.response.matched = 1
    /\ resolver_call.response.needs_review = 1

\* C20: validate_workout_mapping returns a report that classifies every
\* named exercise either as valid or as needs_review (valid only with a match
\* of confidence at or above the threshold that is neither generic nor
\* marked needs-search), lists the exercises without a match or with a
\* requested manual search as unmapped, among those needing review, and has
\* can_proceed false exactly when at least one exercise is unmapped.
C20_ValidationClassifiesEveryExercise ==
    resolver_call.op = "validate_workout_mapping" =>
        /\ resolver_call.raised = ""
        /\ LET results == resolver_call.results
               named   == {i \in 1..Len(resolver_call.exercises) :
                              resolver_call.exercises[i].name # ""}
           IN  /\ Len(results.validated_exercises) + Len(results.needs_review)
                      = Cardinality(named)
               /\ \A k \in 1..Len(results.unmapped_exercises) :
                      \E j \in 1..Len(results.needs_review) :
                          results.needs_review[j] = results.unmapped_exercises[k]
               /\ results.can_proceed <=> results.unmapped_exercises = <<>>


\* The name a note has to hold: the exercise's name without surrounding
\* whitespace and without a set label (a letter, a digit and a colon).
StatedName(name) ==
    LET s == Strip(name)
    IN  IF Len(s) >= 3 /\ IsDigit(s[2]) /\ s[3] = ":"
        THEN Strip(SubSeq(s, 4, Len(s))) ELSE s

\* The entry of exercise i of an export carries a note with the name and a
\* provenance reason.
CarriesNote(i) ==
    \E k \in DOMAIN resolver_call.steps :
        LET step == resolver_call.steps[k]
            name == StatedName(resolver_call.exercises[i].name)
        IN  /\ step.exercise = i
            /\ Has(step, "mapping_reason")
            /\ step.mapping_reason.text \in
                  {"chosen from your saved preferences",
                   "chosen as popular choice by users",
                   "chosen as popular choice by N users",
                   "chosen as exact match", "chosen as closest match",
                   "chosen as best match", "used name as-is (no match found)"}
            /\ Has(step, "original_with_details")
            /\ \E j \in 1..Len(step.original_with_details) :
                  SubSeq(step.original_with_details, j, j + Len(name) - 1) = name

StatedLayer(answers) ==
    IF answers.user_mapped # "" THEN [source |-> "user_mapping", confidence |-> 100]
    ELSE IF answers.popularity_count > 0
    THEN [source |-> "popular_mapping",
          confidence |-> IF 70 + 5 * answers.popularity_count < 95
                         THEN 70 + 5 * answers.popularity_count ELSE 95]
    ELSE IF answers.manual # "none"
    THEN [source |-> "manual_mapping",
          confidence |-> IF answers.manual = "exact" THEN 100 ELSE 95]
    ELSE IF answers.fuzzy > 0
    THEN [source |-> "garmin_database", confidence |-> answers.fuzzy]
    ELSE IF answers.canonical > 0
    THEN [source |-> "canonical_mapping", confidence |-> answers.canonical]
    ELSE [source |-> "fallback", confidence |-> 0]

\* C24: map_exercise_to_garmin resolves a name by the first layer that hits,
\* in the fixed order user override, crowd popularity, curated rules, fuzzy
\* catalog match, canonical dictionary, fallback, never consulting a lower
\* layer once a higher one hits, and it reports that layer's provenance and
\* confidence: provenance user with confidence 1.0 for a user override, and
\* provenance popular with confidence min(0.95, 0.70 + 0.05 * count) for a
\* popularity hit.
C24_FirstHittingLayerReported ==
    resolver_call.op = "map_exercise_to_garmin" =>
        /\ resolver_call.raised = ""
        /\ Has(resolver_call.mapping_info, "source")
        /\ Has(resolver_call.mapping_info, "confidence")
        /\ resolver_call.mapping_info.source = StatedLayer(resolver_call.answers).source
        /\ resolver_call.mapping_info.confidence =
              StatedLayer(resolver_call.answers).confidence

----------------------------------------------------------------------------
(* Batch detection (backend/bulk_import.py, backend/parsers/url_parser.py). *)
(* detect_items hands the URL sources to fetch_metadata_batch, which runs   *)
(* one task per URL under an asyncio.Semaphore and gathers the results; the *)
(* image parser does the same for the decodable images.  The tasks run on   *)
(* one event loop: a step is a task's run up to its next await.             *)

MaxSources == 6      \* sources of a detect call

\* No detect call made.
FetchInit ==
    /\ detect_call = [pc |-> "idle"]
    /\ fetch_tasks = <<>>
    /\ semaphore = 0
    /\ completed = <<>>

\* detect_items (lines 507-524) calls _detect_urls_batch with max_concurrent
\* 5 or _detect_images_batch with max_concurrent 3 on sources 1..n; the
\* images of undecodable are not base64 and get no task (lines 673-678).
\* The semaphore is created and one task per source is handed to gather
\* (url_parser.py lines 260-267).
DetectBatch(source_type, n, undecodable) ==
    /\ detect_call.pc = "idle"
    /\ source_type = "urls" => undecodable = {}
    /\ undecodable \subseteq 1..n
    /\ LET sources == SelectSeq([i \in 1..n |-> i], LAMBDA i : i \notin undecodable)
       IN  fetch_tasks' = [k \in 1..Len(sources) |->
                              [pc |-> "waiting", source |-> sources[k], result |-> 0]]
    /\ semaphore' = IF source_type = "urls" THEN 5 ELSE 3
    /\ detect_call' = [pc |-> "gathering", source_type |-> source_type,
                       sources |-> n, undecodable |-> undecodable]
    /\ UNCHANGED completed
    /\ UNCHANGED notFetchVars

\* async with semaphore (line 263): a task enters when the value is positive
\* and starts its fetch.
AcquireSemaphore(t) ==
    /\ detect_call.pc = "gathering"
    /\ fetch_tasks[t].pc = "waiting"
    /\ semaphore > 0
    /\ semaphore' = semaphore - 1
    /\ fetch_tasks' = [fetch_tasks EXCEPT ![t].pc = "fetching"]
    /\ UNCHANGED <<detect_call, completed>>
    /\ UNCHANGED notFetchVars

\* The fetch of task t returns the metadata of its own URL (line 264) and
\* the task leaves the semaphore.
FetchReturns(t) ==
    /\ detect_call.pc = "gathering"
    /\ fetch_tasks[t].pc = "fetching"
    /\ fetch_tasks' = [fetch_tasks EXCEPT ![t].pc = "done",
                                          ![t].result = fetch_tasks[t].source]
    /\ semaphore' = semaphore + 1
    /\ completed' = Append(completed, t)
    /\ UNCHANGED detect_call
    /\ UNCHANGED notFetchVars

\* gather returning the results by completion order.
GatherReturnsAsCompleted ==
    /\ detect_call.pc = "gathering"
    /\ \A t \in DOMAIN fetch_tasks : fetch_tasks[t].pc = "done"
    /\ detect_call' =
          [detect_call EXCEPT !.pc = "returned"] @@
          [items |-> [k \in 1..Len(completed) |->
                         [source_index |-> k - 1,
                          source_ref |-> fetch_tasks[completed[k]].result]]]
    /\ UNCHANGED <<fetch_tasks, semaphore, completed>>
    /\ UNCHANGED notFetchVars

\* asyncio.gather returns the results in the order of its tasks (line 267)
\* once every task is done, and the detect function builds one item per
\* result with source_index its position (bulk_import.py lines 593-644); the
\* image function puts the items of the undecodable images first (lines
\* 680-693) and gives the others the index of their image (lines 704-730).
GatherReturns ==
    /\ detect_call.pc = "gathering"
    /\ \A t \in DOMAIN fetch_tasks : fetch_tasks[t].pc = "done"
    /\ LET errors == SelectSeq([i \in 1..detect_call.sources |-> i],
                               LAMBDA i : i \in detect_call.undecodable)
       IN  detect_call' =
              [detect_call EXCEPT !.pc = "returned"] @@
              [items |->
                  [k \in 1..Len(errors) |->
                      [source_index |-> errors[k] - 1, source_ref |-> errors[k]]]
                  \o
                  [k \in 1..Len(fetch_tasks) |->
                      [source_index |-> IF detect_call.source_type = "urls"
                                        THEN k - 1 ELSE fetch_tasks[k].source - 1,
                       source_ref |-> fetch_tasks[k].result]]]
    /\ UNCHANGED <<fetch_tasks, semaphore, completed>>
    /\ UNCHANGED notFetchVars

FetchNext ==
    \/ /\ detect_call.pc = "idle"
       /\ \E source_type \in {"urls", "images"}, n \in 0..MaxSources,
             undecodable \in {{}, {2}} :
                DetectBatch(source_type, n, undecodable)
    \/ \E t \in DOMAIN fetch_tasks : AcquireSemaphore(t)
    \/ \E t \in DOMAIN fetch_tasks : FetchReturns(t)
    \/ GatherReturns

\* The fetches in flight.
InFlight == {t \in DOMAIN fetch_tasks : fetch_tasks[t].pc = "fetching"}

----------------------------------------------------------------------------
(* Specifications.                                                         *)

Init == FitInit /\ JobInit /\ PairInit /\ PopInit /\ MapInit /\ SaveInit /\ NormInit /\ ResolveInit
            /\ FetchInit

SpecPop == Init /\ [][PopNext]_vars

SpecPair == Init /\ [][PairNext]_vars

SpecFit == Init /\ [][FitNext]_vars

SpecJob == Init /\ [][JobNext]_vars

\* The steps the running program takes by itself: the event loop runs every
\* started processing to its end (each item's processing terminates), and an
\* open cancel_import call makes its write.  Calls of the API and exceptions
\* are not required to happen.
JobProgress ==
    \/ \E t \in Tasks : CheckCancelled(t)
    \/ \E t \in Tasks : UpdateProgress(t)
    \/ \E t \in Tasks : ImportItem(t)
    \/ \E t \in Tasks : FinishAsync(t)
    \/ \E t \in Tasks : ReturnSync(t)
    \/ CancelUpdate

SpecJobFair == SpecJob /\ WF_vars(JobProgress)

SpecMap == Init /\ [][MapNext]_vars

SpecSave == Init /\ [][SaveNext]_vars

SpecNorm == Init /\ [][NormNext]_vars

SpecResolve == Init /\ [][ResolveNext]_vars

SpecFetch == Init /\ [][FetchNext]_vars

====
